---- MODULE Spec2Model ----
(***************************************************************************)
(* The IRIS stack machine (src/src/vm/engine.rs): operand stack, call      *)
(* frames, protected-region frames and the fetch-decode-dispatch loop.     *)
(* Bytecode is an input of the VM.  Its octets are chosen when the run     *)
(* first reads them and are kept from then on, so every behaviour is the   *)
(* run of one fixed program; the octets never read can be anything.        *)
(***************************************************************************)
EXTENDS Integers, Sequences, FiniteSets, TLC

\* Bounds of the exploration.
MaxSteps == 4
MaxCodeLen == 8

VARIABLES
  stack,       \* IrisVM.stack
  frames,      \* IrisVM.frames
  try_frames,  \* IrisVM.try_frames
  bytecode,    \* Function.bytecode of every function: octet per address, or Unset
  code_end,    \* upper bound on each function's code length known so far
  status,      \* where run() is: running, returned Ok, returned Err(e), aborted
  steps,       \* number of loop iterations of run() so far
  prev,        \* the instruction run() executed last and the state it started from
  next_id,     \* history: next identity of a call frame / protected region
  globals,     \* IrisVM.globals
  defined,     \* history: the global slots DefineGlobalVariable8 has targeted
  overflow_checks, \* the build: TRUE when usize arithmetic aborts on overflow
                   \* (debug profile), FALSE when it wraps (release profile)
  arrays,      \* the Vec<Value> behind every Value::Array, by array identity
  instances,   \* the class of every Instance CreateNewInstance has made
  step_limit,  \* number of loop iterations of run() the exploration follows
  functions,   \* Function.kind, Function.native and the presence of
               \* Function.bytecode, of every function
  native_vm,   \* the IrisVM a native specialization runs on: its operand
               \* stack, globals, frame base, and where the native code is
  class_methods \* Class.methods of the class the embedder is building

vars == <<stack, frames, try_frames, bytecode, code_end, status, steps, prev, next_id,
          globals, defined, overflow_checks, arrays, instances, step_limit,
          functions, native_vm, class_methods>>

----------------------------------------------------------------------------
\* Values (value.rs): the variants the exception and call machinery tell apart.

Null == [t |-> "Null", v |-> 0]
FunctionVal(f) == [t |-> "Function", v |-> f]
ObjectVal(o) == [t |-> "Object", v |-> o]
ClassVal(c) == [t |-> "Class", v |-> c]
I32(n) == [t |-> "I32", v |-> n]
I64(n) == [t |-> "I64", v |-> n]
Bool(b) == [t |-> "Bool", v |-> IF b THEN 1 ELSE 0]
ArrayVal(a) == [t |-> "Array", v |-> a]
Str(s) == [t |-> "Str", v |-> s]   \* s names a non-empty string

\* i32::MIN and i32::MAX.
MinI32 == 0 - 2147483647 - 1
MaxI32 == 0 + 2147483647

\* Value::is_truthy on the variants of the model.
is_truthy(val) ==
  CASE val.t = "Null" -> FALSE
    [] val.t = "I32" -> val.v # 0
    [] val.t = "I64" -> val.v # 0
    [] val.t = "Bool" -> val.v = 1
    [] val.t = "Str" -> TRUE
    [] val.t = "Array" -> arrays[val.v + 1] # <<>>
    [] OTHER -> TRUE

\* Functions 0 (the function of the initial frame) and 1, the counting loop 2
\* and the printing program 3.
FuncIds == {0, 1, 2, 3}

\* Classes: 0 = E, 1 = D with superclass E, 2 = U (unrelated), 3 = G with
\* superclass D; -1 is None.
ClassIds == {0, 1, 2, 3}

superclass(c) == CASE c = 1 -> 0 [] c = 3 -> 1 [] OTHER -> 0 - 1

\* Class.methods, a Vec indexed by method slot: the function of each slot.
\* E has slots 0 and 1, D has its own slot 0, U and G have none of their own.
methods(c) == CASE c = 0 -> <<1, 1>> [] c = 1 -> <<0>> [] OTHER -> <<>>

\* Instances the embedder made: object 0 is a D, object 1 is a U, object 2 is
\* an E, object 3 is a G.  The instances CreateNewInstance makes follow.
HostObjectIds == {0, 1, 2, 3}
instance_class(o) ==
  IF o \notin HostObjectIds THEN instances[o - Cardinality(HostObjectIds) + 1]
  ELSE CASE o = 0 -> 1 [] o = 1 -> 2 [] o = 3 -> 3 [] OTHER -> 0

\* Instance.fields, by its length: Instance::new makes none; the embedder has
\* pushed one field onto object 3.
fields_len(o) == IF o = 3 THEN 1 ELSE 0

\* Function.constants of each function.
constants(f) ==
  CASE f = 0 -> <<FunctionVal(1), ClassVal(0)>>
    [] f = 2 -> <<I32(0), I32(1), I32(2)>>
    [] f = 3 -> <<Str(0)>>
    [] OTHER -> <<FunctionVal(0), ClassVal(1)>>

\* Operand stacks the embedder may prepare before run().
InitStacks ==
  { <<>>,
    <<ObjectVal(0)>>,
    <<ObjectVal(1)>>,
    <<FunctionVal(1), Null>>,
    <<ObjectVal(0), FunctionVal(1)>>,
    <<ObjectVal(1), ObjectVal(2)>> }

\* Operand stacks for the runs of jumps.
InitStacksFlow ==
  { <<>>,
    <<Null>>,
    <<ObjectVal(0)>>,
    <<I32(0), I32(1)>> }

\* Operand stacks for the runs of arithmetic.
InitStacksArith ==
  { <<I32(1)>>,
    <<I32(6), I32(0)>>,
    <<I32(0 - 7), I32(2)>>,
    <<I32(MinI32), I32(0 - 1)>>,
    <<I32(MaxI32), I32(1)>>,
    <<Null, I32(1)>>,
    <<I32(0), I32(7), I32(2)>> }

\* Operand stacks for the runs of bitwise operations and shifts.
InitStacksBits ==
  { <<I32(6), I32(3)>>,
    <<I32(5)>>,
    <<I64(6), I64(3)>>,
    <<I64(0 - 7), I64(2)>>,
    <<I64(5), I64(64)>>,
    <<I64(5), I64(65)>>,
    <<I64(0), I64(0 - 1)>>,
    <<I64(6), I32(3)>>,
    <<Null>> }

\* Operand stacks for the runs of variables and method invocation.
InitStacksData ==
  { <<>>,
    <<I32(1)>>,
    <<ObjectVal(0)>>,
    <<ObjectVal(1), Null>>,
    <<I32(1), ObjectVal(2)>>,
    <<ObjectVal(3), I32(5)>> }

\* Operand stacks for the runs of instances and arrays.
InitStacksHeap ==
  { <<ArrayVal(0), I64(5), ArrayVal(0), I64(5), I32(7)>>,
    <<ArrayVal(0), I64(2), ArrayVal(0), I64(2), I32(7)>>,
    <<ArrayVal(1), I64(0), ArrayVal(1), I64(0), Null>>,
    <<ArrayVal(0), I64(2)>>,
    <<ArrayVal(1), I64(0 - 1)>>,
    <<ArrayVal(0), I32(1)>>,
    <<ArrayVal(0), I64(0 - 1), I32(7)>>,
    <<Null, I64(1), I32(7)>>,
    <<ObjectVal(0), Null>>,
    <<ObjectVal(3), I32(7)>>,
    <<ObjectVal(0), ObjectVal(0), Null>>,
    <<ClassVal(0)>> }

\* Function::new_bytecode: the kind, the native entry and the bytecode option.
new_bytecode == [kind |-> "Bytecode", native |-> "None", bytecode |-> "Some"]

\* No native code is running.
NoNativeRun == [stack |-> <<>>, globals |-> <<>>, stack_base |-> 0, function |-> 0,
                ip |-> 0, status |-> "idle"]

----------------------------------------------------------------------------
\* Result<(), VMError> of run(), plus the abort of the process by a panic.

Running == [k |-> "running", e |-> "", v |-> Null]
Ok == [k |-> "ok", e |-> "", v |-> Null]
Err(e) == [k |-> "error", e |-> e, v |-> Null]
UnhandledException(val) == [k |-> "error", e |-> "UnhandledException", v |-> val]
Panic == [k |-> "panic", e |-> "", v |-> Null]

Fail(vm, err) == [vm EXCEPT !.status = err]

----------------------------------------------------------------------------
\* Bytecode cells.

Unset == 0 - 1   \* an octet the run has not read yet
End == 0 - 2     \* read result: the address is at or past the end of the code

\* Octets a cell first read as an opcode, and as an immediate, can hold.
OpChoices ==
  {0, 1, 3, 6, 15, 17, 19, 21, 23, 30, 40, 41, 42, 43, 44, 45, 46, 60, 61,
   63, 65, 66, 67, 68, 69, 70, 71, 72, 90, 91, 92, 93, 94, 95, 102, 7, 24, 27, 29, 53, 80, 82, 83, 100}
ArgChoices == {0, 1}

\* The octets an immediate of an instruction is taken from: position 1 or 2
\* after the opcode.  A short jump gets a forward offset, -2 and -128 (i8); a
\* method slot ranges over one slot more than any class has.
OperandChoices(op, pos) ==
  CASE op = "ShortJump" -> {1, 254, 128}
    [] op = "InvokeMethod8" /\ pos = 1 -> {0, 1, 2}
    [] op \in {"SetObjectProperty8", "CreateNewArray8"} -> {0, 1, 2}
    [] OTHER -> ArgChoices

\* impl From<u8> for OpCode (opcode.rs).
from_u8(byte) ==
  CASE
     byte = 1 -> "Constant8"
  [] byte = 2 -> "Constant16"
  [] byte = 3 -> "Null"
  [] byte = 4 -> "True"
  [] byte = 5 -> "False"
  [] byte = 6 -> "Pop"
  [] byte = 7 -> "Dup"
  [] byte = 8 -> "Swap"
  [] byte = 9 -> "LoadImmI8"
  [] byte = 10 -> "LoadImmI16"
  [] byte = 11 -> "LoadImmI32"
  [] byte = 12 -> "LoadImmI64"
  [] byte = 13 -> "LoadImmF32"
  [] byte = 14 -> "LoadImmF64"
  [] byte = 15 -> "GetLocal8"
  [] byte = 16 -> "GetLocal16"
  [] byte = 17 -> "SetLocal8"
  [] byte = 18 -> "SetLocal16"
  [] byte = 19 -> "GetGlobal8"
  [] byte = 21 -> "DefineGlobal8"
  [] byte = 23 -> "SetGlobal8"
  [] byte = 25 -> "GetProperty8"
  [] byte = 26 -> "GetProperty16"
  [] byte = 27 -> "SetProperty8"
  [] byte = 28 -> "SetProperty16"
  [] byte = 29 -> "NewInstance"
  [] byte = 30 -> "Invoke8"
  [] byte = 31 -> "Invoke16"
  [] byte = 32 -> "GetSuper8"
  [] byte = 33 -> "GetSuper16"
  [] byte = 34 -> "Class8"
  [] byte = 35 -> "Class16"
  [] byte = 40 -> "Jump"
  [] byte = 41 -> "JumpIfFalse"
  [] byte = 42 -> "Loop"
  [] byte = 43 -> "Call"
  [] byte = 44 -> "Return"
  [] byte = 50 -> "Equal"
  [] byte = 51 -> "NotEqual"
  [] byte = 52 -> "Greater"
  [] byte = 53 -> "Less"
  [] byte = 54 -> "LogicalAnd"
  [] byte = 55 -> "LogicalOr"
  [] byte = 56 -> "LogicalNot"
  [] byte = 57 -> "GreaterEqual"
  [] byte = 58 -> "LessEqual"
  [] byte = 60 -> "Add"
  [] byte = 61 -> "Sub"
  [] byte = 62 -> "Mul"
  [] byte = 63 -> "Div"
  [] byte = 64 -> "Modulo"
  [] byte = 65 -> "Negate"
  [] byte = 66 -> "BitwiseAnd"
  [] byte = 67 -> "BitwiseOr"
  [] byte = 68 -> "BitwiseXor"
  [] byte = 69 -> "BitwiseNot"
  [] byte = 70 -> "LeftShift"
  [] byte = 71 -> "RightShift"
  [] byte = 80 -> "NewArray8"
  [] byte = 81 -> "NewArray16"
  [] byte = 82 -> "GetIndex"
  [] byte = 83 -> "SetIndex"
  [] byte = 84 -> "NewMap8"
  [] byte = 85 -> "NewMap16"
  [] byte = 86 -> "GetField8"
  [] byte = 87 -> "GetField16"
  [] byte = 88 -> "SetField8"
  [] byte = 89 -> "SetField16"
  [] byte = 90 -> "Throw"
  [] byte = 91 -> "Try"
  [] byte = 92 -> "EndTry"
  [] byte = 100 -> "Print"
  [] byte = 101 -> "Nop"
  [] OTHER -> "Unknown"

\* The opcode the run loop matches on.  engine.rs uses the long opcode names
\* and two opcodes opcode.rs does not list (TailCallFunction, CatchException);
\* they take the next free octet of their family.  So do ShortJump,
\* FinallyBlock, UnwindStack, AtomicAddInt32, AbsoluteInt32 and
\* RollStackItems; the Add, Sub,
\* Div and Negate octets are the I32 forms.
LongName(byte, name) ==
  CASE byte = 45 -> "TailCallFunction"
    [] byte = 46 -> "ShortJump"
    [] byte = 93 -> "CatchException"
    [] byte = 94 -> "FinallyBlock"
    [] byte = 95 -> "UnwindStack"
    [] byte = 102 -> "AtomicAddInt32"
    [] byte = 72 -> "AbsoluteInt32"
    [] byte = 24 -> "RollStackItems"
    [] name = "Sub" -> "SubtractInt32"
    [] name = "Dup" -> "DuplicateTop"
    [] name = "SetProperty8" -> "SetObjectProperty8"
    [] name = "NewInstance" -> "CreateNewInstance"
    [] name = "Less" -> "LessThanInt32"
    [] name = "NewArray8" -> "CreateNewArray8"
    [] name = "GetIndex" -> "GetArrayIndexInt32"
    [] name = "SetIndex" -> "SetArrayIndexInt32"
    [] name = "Print" -> "PrintTopOfStack"
    [] name = "Negate" -> "NegateInt32"
    [] name \in {"BitwiseAnd", "BitwiseOr", "BitwiseXor", "BitwiseNot", "LeftShift",
                 "RightShift"} -> name \o "Int32"
    [] name = "GetLocal8" -> "GetLocalVariable8"
    [] name = "SetLocal8" -> "SetLocalVariable8"
    [] name = "GetGlobal8" -> "GetGlobalVariable8"
    [] name = "DefineGlobal8" -> "DefineGlobalVariable8"
    [] name = "SetGlobal8" -> "SetGlobalVariable8"
    [] name = "Invoke8" -> "InvokeMethod8"
    [] name = "Jump" -> "UnconditionalJump"
    [] name = "Loop" -> "LoopJump"
    [] name = "Add" -> "AddInt32"
    [] name = "Div" -> "DivideInt32"
    [] name = "Constant8" -> "PushConstant8"
    [] name = "Constant16" -> "PushConstant16"
    [] name = "Null" -> "PushNull"
    [] name = "Pop" -> "PopStack"
    [] name = "Call" -> "CallFunction"
    [] name = "Return" -> "ReturnFromFunction"
    [] name = "Throw" -> "ThrowException"
    [] name = "Try" -> "BeginTryBlock"
    [] name = "EndTry" -> "EndTryBlock"
    [] OTHER -> name

Decode(byte) == LongName(byte, from_u8(byte))

----------------------------------------------------------------------------
\* Vec helpers.

Last(s) == s[Len(s)]
Front(s) == SubSeq(s, 1, Len(s) - 1)

\* Vec::truncate: no effect when the vector is already that short.
Truncate(s, n) == IF n >= Len(s) THEN s ELSE SubSeq(s, 1, n)

\* Vec::remove at a 0-based position.
RemoveAt(s, pos) == SubSeq(s, 1, pos) \o SubSeq(s, pos + 2, Len(s))

SetTopIp(fs, ip) == [fs EXCEPT ![Len(fs)].ip = ip]

----------------------------------------------------------------------------
\* Operand access.  A vm is the record of the IrisVM fields together with the
\* code being run and the Result so far; a failed step keeps the fields as the
\* early return left them.

\* IrisVM::read_byte: [vm, b]; b is meaningful when vm.status is still Running.
read_byte(vm) ==
  IF vm.frames = <<>> THEN [vm |-> Fail(vm, Err("NoActiveCallFrame")), b |-> 0]
  ELSE LET frame == Last(vm.frames) IN
       IF frame.ip >= vm.code_end[frame.function]
         THEN [vm |-> Fail(vm, Err("InvalidOperand")), b |-> 0]
         ELSE [vm |-> [vm EXCEPT !.frames = SetTopIp(vm.frames, frame.ip + 1)],
               b |-> vm.bytecode[frame.function][frame.ip]]

\* IrisVM::read_u16: two octets, big-endian.
read_u16(vm) ==
  LET r1 == read_byte(vm) IN
  IF r1.vm.status # Running THEN r1
  ELSE LET r2 == read_byte(r1.vm) IN
       IF r2.vm.status # Running THEN r2
       ELSE [vm |-> r2.vm, b |-> r1.b * 256 + r2.b]

\* Fault injection for C2: push_frame that forgets the arguments and starts
\* the frame's locals at the top of the stack.
push_frame_at_top(vm, function, arg_count) ==
  [vm EXCEPT
     !.frames = Append(vm.frames,
                       [function |-> function, ip |-> 0,
                        stack_base |-> Len(vm.stack),
                        fid |-> vm.next_id]),
     !.next_id = vm.next_id + 1]

\* IrisVM::push_frame.  The subtraction is on usize: it overflows (abort) when
\* there are fewer values than arguments.
push_frame(vm, function, arg_count) ==
  IF arg_count > Len(vm.stack) THEN Fail(vm, Panic)
  ELSE [vm EXCEPT
          !.frames = Append(vm.frames,
                            [function |-> function, ip |-> 0,
                             stack_base |-> Len(vm.stack) - arg_count,
                             fid |-> vm.next_id]),
          !.next_id = vm.next_id + 1]

\* Fault injection for C16: an unmapped octet is skipped like NoOperation.
handle_unknown_skipped(vm) == vm

\* Unknown arm of run().
handle_unknown(vm) == Fail(vm, Err("UnknownOpCode"))

\* PushConstant8 arm of run() with IrisVM::read_constant8.
handle_push_constant8(vm0) ==
  LET r == read_byte(vm0) IN
  IF r.vm.status # Running THEN r.vm
  ELSE LET pool == constants(Last(r.vm.frames).function) IN
       IF r.b >= Len(pool) THEN Fail(r.vm, Err("InvalidOperand"))
       ELSE [r.vm EXCEPT !.stack = Append(r.vm.stack, pool[r.b + 1])]

\* PushNull arm of run().
handle_push_null(vm) == [vm EXCEPT !.stack = Append(vm.stack, Null)]

\* PopStack arm of run() with IrisVM::pop_stack.
handle_pop_stack(vm) ==
  IF vm.stack = <<>> THEN Fail(vm, Err("StackUnderflow"))
  ELSE [vm EXCEPT !.stack = Front(vm.stack)]

\* Fault injection for C10: a tail call that pushes a frame as a call does.
handle_tail_call_function_pushes(vm0) ==
  LET r == read_byte(vm0) IN
  IF r.vm.status # Running THEN r.vm
  ELSE LET vm == r.vm
           arg_count == r.b
       IN IF Len(vm.stack) < 1 + arg_count THEN Fail(vm, Panic)
          ELSE LET callee_pos == Len(vm.stack) - 1 - arg_count
                   callee == vm.stack[callee_pos + 1]
               IN IF callee.t = "Function"
                    THEN push_frame([vm EXCEPT !.stack = RemoveAt(vm.stack, callee_pos)],
                                    callee.v, arg_count)
                    ELSE Fail(vm, Err("NonCallableValue"))

\* The argument-moving loop of handle_tail_call_function, one cell at a time.
RECURSIVE MoveArgs(_, _, _, _, _)
MoveArgs(s, stack_base, args_start_idx, i, arg_count) ==
  IF i >= arg_count THEN s
  ELSE MoveArgs([s EXCEPT ![stack_base + i + 1] = s[args_start_idx + i + 1]],
                stack_base, args_start_idx, i + 1, arg_count)

\* IrisVM::handle_tail_call_function.
handle_tail_call_function(vm0) ==
  LET r == read_byte(vm0) IN
  IF r.vm.status # Running THEN r.vm
  ELSE LET vm == r.vm
           arg_count == r.b
       IN IF Len(vm.stack) < 1 + arg_count THEN Fail(vm, Panic)
          ELSE LET callee_pos == Len(vm.stack) - 1 - arg_count
                   callee == vm.stack[callee_pos + 1]
                   stack_base == Last(vm.frames).stack_base
               IN IF callee.t # "Function" THEN Fail(vm, Err("NonCallableValue"))
                  ELSE IF arg_count > 0 /\ stack_base + arg_count > Len(vm.stack)
                    THEN Fail(vm, Panic)   \* stack[stack_base + i] out of range
                  ELSE [vm EXCEPT
                          !.stack = Truncate(MoveArgs(vm.stack, stack_base, callee_pos + 1,
                                                      0, arg_count),
                                             stack_base + arg_count),
                          !.frames = [vm.frames EXCEPT ![Len(vm.frames)].function = callee.v,
                                                       ![Len(vm.frames)].ip = 0]]

\* Fault injection for C12: the result is popped and never pushed back.
handle_return_from_function_drops_result(vm) ==
  IF vm.stack = <<>> THEN Fail(vm, Err("StackUnderflow"))
  ELSE IF vm.frames = <<>> THEN Fail([vm EXCEPT !.stack = Front(vm.stack)],
                                      Err("NoActiveCallFrame"))
  ELSE [vm EXCEPT !.stack = Truncate(Front(vm.stack), Last(vm.frames).stack_base),
                  !.frames = Front(vm.frames)]

\* IrisVM::handle_return_from_function; run() leaves the loop when no frame is left.
handle_return_from_function(vm) ==
  IF vm.stack = <<>> THEN Fail(vm, Err("StackUnderflow"))
  ELSE LET result == Last(vm.stack)
           frame == Last(vm.frames)
       IN [vm EXCEPT !.frames = Front(vm.frames),
                     !.stack = Append(Truncate(Front(vm.stack), frame.stack_base), result)]

\* Fault injection for C6: a throw that reports the unhandled exception without
\* the value it popped.
handle_throw_exception_loses_value(vm) ==
  IF vm.stack = <<>> THEN Fail(vm, Err("StackUnderflow"))
  ELSE LET exception == Last(vm.stack)
           popped == [vm EXCEPT !.stack = Front(vm.stack)]
       IN IF vm.try_frames # <<>>
            THEN LET try_frame == Last(vm.try_frames) IN
                 [popped EXCEPT
                    !.try_frames = Front(vm.try_frames),
                    !.frames = SetTopIp(vm.frames, try_frame.ip),
                    !.stack = Append(Truncate(popped.stack, try_frame.stack_size), exception)]
            ELSE Fail(popped, UnhandledException(Null))

\* Fault injection for C7: a throw that unwinds to the oldest TryFrame
\* (try_frames.remove(0)) instead of the newest.
handle_throw_exception_oldest(vm) ==
  IF vm.stack = <<>> THEN Fail(vm, Err("StackUnderflow"))
  ELSE LET exception == Last(vm.stack)
           popped == [vm EXCEPT !.stack = Front(vm.stack)]
       IN IF vm.try_frames # <<>>
            THEN LET try_frame == Head(vm.try_frames) IN
                 [popped EXCEPT
                    !.try_frames = Tail(vm.try_frames),
                    !.frames = SetTopIp(vm.frames, try_frame.ip),
                    !.stack = Append(Truncate(popped.stack, try_frame.stack_size), exception)]
            ELSE Fail(popped, UnhandledException(exception))

\* IrisVM::handle_throw_exception.
handle_throw_exception(vm) ==
  IF vm.stack = <<>> THEN Fail(vm, Err("StackUnderflow"))
  ELSE LET exception == Last(vm.stack)
           popped == [vm EXCEPT !.stack = Front(vm.stack)]
       IN IF vm.try_frames # <<>>
            THEN LET try_frame == Last(vm.try_frames) IN
                 [popped EXCEPT
                    !.try_frames = Front(vm.try_frames),
                    !.frames = SetTopIp(vm.frames, try_frame.ip),
                    !.stack = Append(Truncate(popped.stack, try_frame.stack_size), exception)]
            ELSE Fail(popped, UnhandledException(exception))

\* IrisVM::handle_begin_try_block.
handle_begin_try_block(vm0) ==
  LET r == read_byte(vm0) IN
  IF r.vm.status # Running THEN r.vm
  ELSE LET vm == r.vm IN
       [vm EXCEPT
          !.try_frames = Append(vm.try_frames,
                                [ip |-> Last(vm.frames).ip + r.b,
                                 stack_size |-> Len(vm.stack),
                                 id |-> vm.next_id,
                                 owner |-> Last(vm.frames).fid]),
          !.next_id = vm.next_id + 1]

\* Fault injection for C9: EndTryBlock that drops every TryFrame.
handle_end_try_block_clear(vm) ==
  IF vm.try_frames = <<>> THEN Fail(vm, Err("NoTryFrame"))
  ELSE [vm EXCEPT !.try_frames = <<>>]

\* IrisVM::handle_end_try_block.
handle_end_try_block(vm) ==
  IF vm.try_frames = <<>> THEN Fail(vm, Err("NoTryFrame"))
  ELSE [vm EXCEPT !.try_frames = Front(vm.try_frames)]

\* IrisVM::is_instance_of: walk the superclass chain from the instance's class.
RECURSIVE ClassIs(_, _)
ClassIs(cls, target_class) ==
  IF cls = 0 - 1 THEN FALSE
  ELSE IF cls = target_class THEN TRUE
  ELSE ClassIs(superclass(cls), target_class)

\* Fault injection for C8: is_instance_of that compares the instance's own
\* class only and never follows superclass.
is_instance_of_exact(instance, target_class) == instance_class(instance) = target_class

is_instance_of(instance, target_class) == ClassIs(instance_class(instance), target_class)

\* IrisVM::handle_catch_exception.
handle_catch_exception(vm0) ==
  LET r == read_u16(vm0) IN
  IF r.vm.status # Running THEN r.vm
  ELSE LET vm == r.vm
           pool == constants(Last(vm.frames).function)
       IN IF r.b >= Len(pool) THEN Fail(vm, Err("InvalidOperand"))
          ELSE IF vm.stack = <<>> THEN Fail(vm, Err("StackUnderflow"))
          ELSE LET catch_class_val == pool[r.b + 1]
                   exception_obj == Last(vm.stack)
               IN IF catch_class_val.t = "Class" /\ exception_obj.t = "Object"
                    THEN IF is_instance_of(exception_obj.v, catch_class_val.v)
                           THEN vm
                           ELSE handle_throw_exception(vm)
                    ELSE handle_throw_exception(vm)

----------------------------------------------------------------------------
\* Jumps.  The IP is a usize: 64 bits in the program, UsizeModulus here, which
\* like 2^64 exceeds every code length and every offset an instruction can
\* carry, so a wrapped IP lies past the end of every code.

UsizeModulus == 2^30

\* IrisVM::handle_unconditional_jump.
handle_unconditional_jump(vm0) ==
  LET r == read_u16(vm0) IN
  IF r.vm.status # Running THEN r.vm
  ELSE [r.vm EXCEPT !.frames = SetTopIp(r.vm.frames, Last(r.vm.frames).ip + r.b)]

\* IrisVM::handle_jump_if_false.
handle_jump_if_false(vm0) ==
  LET r == read_u16(vm0) IN
  IF r.vm.status # Running THEN r.vm
  ELSE IF r.vm.stack = <<>> THEN Fail(r.vm, Err("StackUnderflow"))
  ELSE LET condition == Last(r.vm.stack)
           vm == [r.vm EXCEPT !.stack = Front(r.vm.stack)]
       IN IF ~is_truthy(condition)
            THEN [vm EXCEPT !.frames = SetTopIp(vm.frames, Last(vm.frames).ip + r.b)]
            ELSE vm

\* IrisVM::handle_loop_jump: `frame.ip -= offset` on usize aborts on overflow
\* in a build with overflow checks and wraps in a build without.
handle_loop_jump(vm0) ==
  LET r == read_u16(vm0) IN
  IF r.vm.status # Running THEN r.vm
  ELSE LET ip == Last(r.vm.frames).ip IN
       IF r.b <= ip THEN [r.vm EXCEPT !.frames = SetTopIp(r.vm.frames, ip - r.b)]
       ELSE IF r.vm.overflow_checks THEN Fail(r.vm, Panic)
       ELSE [r.vm EXCEPT !.frames = SetTopIp(r.vm.frames, UsizeModulus + ip - r.b)]

\* IrisVM::handle_short_jump: the octet is an i8; a negative sum becomes a
\* huge usize by the cast.
handle_short_jump(vm0) ==
  LET r == read_byte(vm0) IN
  IF r.vm.status # Running THEN r.vm
  ELSE LET offset == IF r.b >= 128 THEN r.b - 256 ELSE r.b
           target == Last(r.vm.frames).ip + offset
       IN [r.vm EXCEPT !.frames =
             SetTopIp(r.vm.frames, IF target < 0 THEN UsizeModulus + target ELSE target)]

----------------------------------------------------------------------------
\* Local and global variables.

\* GetLocalVariable8 arm of run() with IrisVM::handle_get_local_variable: the
\* Vec index aborts when the slot is at or above the top of the stack.
handle_get_local_variable(vm0) ==
  LET r == read_byte(vm0) IN
  IF r.vm.status # Running THEN r.vm
  ELSE LET vm == r.vm
           slot == r.b
           stack_base == Last(vm.frames).stack_base
       IN IF stack_base + slot >= Len(vm.stack) THEN Fail(vm, Panic)
          ELSE [vm EXCEPT !.stack = Append(vm.stack, vm.stack[stack_base + slot + 1])]

\* Fault injection for C18: the stored value is popped.
handle_set_local_variable_pops(vm0) ==
  LET r == read_byte(vm0) IN
  IF r.vm.status # Running THEN r.vm
  ELSE LET vm == r.vm
           slot == r.b
       IN IF vm.stack = <<>> THEN Fail(vm, Err("StackUnderflow"))
          ELSE LET stack_base == Last(vm.frames).stack_base IN
               IF stack_base + slot >= Len(vm.stack) THEN Fail(vm, Panic)
               ELSE [vm EXCEPT !.stack =
                       Front([vm.stack EXCEPT ![stack_base + slot + 1] = Last(vm.stack)])]

\* SetLocalVariable8 arm of run() with IrisVM::handle_set_local_variable.
handle_set_local_variable(vm0) ==
  LET r == read_byte(vm0) IN
  IF r.vm.status # Running THEN r.vm
  ELSE LET vm == r.vm
           slot == r.b
       IN IF vm.stack = <<>> THEN Fail(vm, Err("StackUnderflow"))
          ELSE LET stack_base == Last(vm.frames).stack_base IN
               IF stack_base + slot >= Len(vm.stack) THEN Fail(vm, Panic)
               ELSE [vm EXCEPT !.stack[stack_base + slot + 1] = Last(vm.stack)]

\* GetGlobalVariable8 arm of run() with IrisVM::handle_get_global_variable.
handle_get_global_variable(vm0) ==
  LET r == read_byte(vm0) IN
  IF r.vm.status # Running THEN r.vm
  ELSE LET vm == r.vm
           slot == r.b
       IN IF slot >= Len(vm.globals) THEN Fail(vm, Err("UndefinedVariable"))
          ELSE [vm EXCEPT !.stack = Append(vm.stack, vm.globals[slot + 1])]

\* Vec::resize(n, Value::Null) of a shorter vector.
Resize(s, n) == s \o [i \in 1..(n - Len(s)) |-> Null]

\* DefineGlobalVariable8 arm of run() with IrisVM::handle_define_global_variable.
handle_define_global_variable(vm0) ==
  LET r == read_byte(vm0) IN
  IF r.vm.status # Running THEN r.vm
  ELSE LET vm == r.vm
           slot == r.b
       IN IF vm.stack = <<>> THEN Fail(vm, Err("StackUnderflow"))
          ELSE LET grown == IF slot >= Len(vm.globals) THEN Resize(vm.globals, slot + 1)
                                                       ELSE vm.globals
               IN [vm EXCEPT !.stack = Front(vm.stack),
                             !.globals = [grown EXCEPT ![slot + 1] = Last(vm.stack)],
                             !.defined = vm.defined \cup {slot}]

\* SetGlobalVariable8 arm of run() with IrisVM::handle_set_global_variable.
handle_set_global_variable(vm0) ==
  LET r == read_byte(vm0) IN
  IF r.vm.status # Running THEN r.vm
  ELSE LET vm == r.vm
           slot == r.b
       IN IF vm.stack = <<>> THEN Fail(vm, Err("StackUnderflow"))
          ELSE IF slot >= Len(vm.globals) THEN Fail(vm, Err("UndefinedVariable"))
          ELSE [vm EXCEPT !.globals[slot + 1] = Last(vm.stack)]

----------------------------------------------------------------------------
\* Method invocation.

\* Fault injection for C20: the search starts at the root of the parent chain.
RECURSIVE find_method_root_first(_, _)
find_method_root_first(cls, key) ==
  LET inherited == IF superclass(cls) # 0 - 1
                     THEN find_method_root_first(superclass(cls), key) ELSE 0 - 1
  IN IF inherited # 0 - 1 THEN inherited
     ELSE IF key < Len(methods(cls)) THEN methods(cls)[key + 1]
     ELSE 0 - 1

\* Class::find_method: the function of the slot, or -1 for None.
RECURSIVE find_method(_, _)
find_method(cls, key) ==
  IF key < Len(methods(cls)) THEN methods(cls)[key + 1]
  ELSE IF superclass(cls) # 0 - 1 THEN find_method(superclass(cls), key)
  ELSE 0 - 1

\* Instance::get_method.
get_method(instance, key) == find_method(instance_class(instance), key)

\* InvokeMethod8 arm of run() with IrisVM::handle_invoke_method.  The unused
\* _instance_index = len - 1 - arg_count is usize arithmetic: it aborts in a
\* build with overflow checks; peek_stack then reports the short stack.
handle_invoke_method(vm0) ==
  LET r1 == read_byte(vm0) IN
  IF r1.vm.status # Running THEN r1.vm
  ELSE LET r2 == read_byte(r1.vm) IN
  IF r2.vm.status # Running THEN r2.vm
  ELSE LET vm == r2.vm
           method_index == r1.b
           arg_count == r2.b
       IN IF Len(vm.stack) < 1 + arg_count /\ vm.overflow_checks THEN Fail(vm, Panic)
          ELSE IF Len(vm.stack) <= arg_count THEN Fail(vm, Err("StackUnderflow"))
          ELSE LET instance_value == vm.stack[Len(vm.stack) - arg_count] IN
               IF instance_value.t # "Object" THEN Fail(vm, Err("NonObjectValue"))
               ELSE LET method == get_method(instance_value.v, method_index) IN
                    IF method = 0 - 1 THEN Fail(vm, Err("MethodNotFound"))
                    ELSE push_frame(vm, method, arg_count)

----------------------------------------------------------------------------
\* Arithmetic on I32.

\* i32::wrapping_add.
wrapping_add(a, b) ==
  IF a > 0 /\ b > 0 /\ a > MaxI32 - b THEN (a + MinI32) + (b + MinI32)
  ELSE IF a < 0 /\ b < 0 /\ a < MinI32 - b THEN (a - MinI32) + (b - MinI32)
  ELSE a + b

\* i32 `/`: the quotient rounded toward zero, for b # 0 and not MIN / -1.
truncated_div(a, b) ==
  LET toward_zero(x, y) == IF x < 0 /\ x % y # 0 THEN (x \div y) + 1 ELSE x \div y
  IN IF b > 0 THEN toward_zero(a, b)
     ELSE IF b = MinI32 THEN (IF a = MinI32 THEN 1 ELSE 0)
     ELSE 0 - toward_zero(a, 0 - b)

\* IrisVM::handle_add_int32.
handle_add_int32(vm) ==
  IF vm.stack = <<>> THEN Fail(vm, Err("StackUnderflow"))
  ELSE LET b == Last(vm.stack)
           vm1 == [vm EXCEPT !.stack = Front(vm.stack)]
       IN IF vm1.stack = <<>> THEN Fail(vm1, Err("StackUnderflow"))
          ELSE LET a == Last(vm1.stack)
                   vm2 == [vm1 EXCEPT !.stack = Front(vm1.stack)]
               IN IF a.t = "I32" /\ b.t = "I32"
                    THEN [vm2 EXCEPT !.stack = Append(vm2.stack, I32(wrapping_add(a.v, b.v)))]
                    ELSE Fail(vm2, Err("TypeMismatch"))

\* IrisVM::handle_divide_int32: i32::MIN / -1 aborts in every build.
handle_divide_int32(vm) ==
  IF vm.stack = <<>> THEN Fail(vm, Err("StackUnderflow"))
  ELSE LET b == Last(vm.stack)
           vm1 == [vm EXCEPT !.stack = Front(vm.stack)]
       IN IF vm1.stack = <<>> THEN Fail(vm1, Err("StackUnderflow"))
          ELSE LET a == Last(vm1.stack)
                   vm2 == [vm1 EXCEPT !.stack = Front(vm1.stack)]
               IN IF a.t = "I32" /\ b.t = "I32"
                    THEN IF b.v = 0 THEN Fail(vm2, Err("DivisionByZero"))
                         ELSE IF a.v = MinI32 /\ b.v = 0 - 1 THEN Fail(vm2, Panic)
                         ELSE [vm2 EXCEPT !.stack =
                                 Append(vm2.stack, I32(truncated_div(a.v, b.v)))]
                    ELSE Fail(vm2, Err("TypeMismatch"))

\* i32::wrapping_sub.
wrapping_sub(a, b) ==
  IF b > 0 /\ a < MinI32 + b THEN (a - MinI32) - (b + MinI32)
  ELSE IF b < 0 /\ a > MaxI32 + b THEN (a + MinI32) - (b - MinI32)
  ELSE a - b

\* IrisVM::handle_subtract_int32.
handle_subtract_int32(vm) ==
  IF vm.stack = <<>> THEN Fail(vm, Err("StackUnderflow"))
  ELSE LET b == Last(vm.stack)
           vm1 == [vm EXCEPT !.stack = Front(vm.stack)]
       IN IF vm1.stack = <<>> THEN Fail(vm1, Err("StackUnderflow"))
          ELSE LET a == Last(vm1.stack)
                   vm2 == [vm1 EXCEPT !.stack = Front(vm1.stack)]
               IN IF a.t = "I32" /\ b.t = "I32"
                    THEN [vm2 EXCEPT !.stack = Append(vm2.stack, I32(wrapping_sub(a.v, b.v)))]
                    ELSE Fail(vm2, Err("TypeMismatch"))

\* IrisVM::handle_negate_int32: the operator `-x` on i32.  -i32::MIN overflows:
\* an abort in a build with overflow checks, i32::MIN in a build without.
handle_negate_int32(vm) ==
  IF vm.stack = <<>> THEN Fail(vm, Err("StackUnderflow"))
  ELSE LET val == Last(vm.stack)
           vm1 == [vm EXCEPT !.stack = Front(vm.stack)]
       IN IF val.t # "I32" THEN Fail(vm1, Err("TypeMismatch"))
          ELSE IF val.v = MinI32
                 THEN (IF vm.overflow_checks THEN Fail(vm1, Panic)
                       ELSE [vm1 EXCEPT !.stack = Append(vm1.stack, I32(MinI32))])
          ELSE [vm1 EXCEPT !.stack = Append(vm1.stack, I32(0 - val.v))]

\* IrisVM::handle_absolute_int32: i32::abs, which overflows on i32::MIN like
\* the negation.
handle_absolute_int32(vm) ==
  IF vm.stack = <<>> THEN Fail(vm, Err("StackUnderflow"))
  ELSE LET val == Last(vm.stack)
           vm1 == [vm EXCEPT !.stack = Front(vm.stack)]
       IN IF val.t # "I32" THEN Fail(vm1, Err("TypeMismatch"))
          ELSE IF val.v = MinI32
                 THEN (IF vm.overflow_checks THEN Fail(vm1, Panic)
                       ELSE [vm1 EXCEPT !.stack = Append(vm1.stack, I32(MinI32))])
          ELSE [vm1 EXCEPT !.stack =
                  Append(vm1.stack, I32(IF val.v < 0 THEN 0 - val.v ELSE val.v))]

----------------------------------------------------------------------------
\* Bitwise operations and shifts.

\* x & y, x | y and x ^ y on two's complement integers: bit by bit from the
\* low end, until both are all zeros or all ones.
RECURSIVE Bitwise(_, _, _)
Bitwise(op, x, y) ==
  LET bit == CASE op = "and" -> (IF x % 2 = 1 /\ y % 2 = 1 THEN 1 ELSE 0)
               [] op = "or" -> (IF x % 2 = 1 \/ y % 2 = 1 THEN 1 ELSE 0)
               [] op = "xor" -> (IF x % 2 # y % 2 THEN 1 ELSE 0)
  IN IF x \in {0, 0 - 1} /\ y \in {0, 0 - 1} THEN 0 - bit
     ELSE 2 * Bitwise(op, x \div 2, y \div 2) + bit

\* IrisVM::handle_bitwise_and_int32: `x & y` on two I64.
handle_bitwise_and_int32(vm) ==
  IF vm.stack = <<>> THEN Fail(vm, Err("StackUnderflow"))
  ELSE LET b == Last(vm.stack)
           vm1 == [vm EXCEPT !.stack = Front(vm.stack)]
       IN IF vm1.stack = <<>> THEN Fail(vm1, Err("StackUnderflow"))
          ELSE LET a == Last(vm1.stack)
                   vm2 == [vm1 EXCEPT !.stack = Front(vm1.stack)]
               IN IF a.t # "I64" \/ b.t # "I64" THEN Fail(vm2, Err("TypeMismatch"))
                  ELSE [vm2 EXCEPT !.stack = Append(vm2.stack, I64(Bitwise("and", a.v, b.v)))]

\* IrisVM::handle_bitwise_or_int32: `x | y` on two I64.
handle_bitwise_or_int32(vm) ==
  IF vm.stack = <<>> THEN Fail(vm, Err("StackUnderflow"))
  ELSE LET b == Last(vm.stack)
           vm1 == [vm EXCEPT !.stack = Front(vm.stack)]
       IN IF vm1.stack = <<>> THEN Fail(vm1, Err("StackUnderflow"))
          ELSE LET a == Last(vm1.stack)
                   vm2 == [vm1 EXCEPT !.stack = Front(vm1.stack)]
               IN IF a.t # "I64" \/ b.t # "I64" THEN Fail(vm2, Err("TypeMismatch"))
                  ELSE [vm2 EXCEPT !.stack = Append(vm2.stack, I64(Bitwise("or", a.v, b.v)))]

\* IrisVM::handle_bitwise_xor_int32: `x ^ y` on two I64.
handle_bitwise_xor_int32(vm) ==
  IF vm.stack = <<>> THEN Fail(vm, Err("StackUnderflow"))
  ELSE LET b == Last(vm.stack)
           vm1 == [vm EXCEPT !.stack = Front(vm.stack)]
       IN IF vm1.stack = <<>> THEN Fail(vm1, Err("StackUnderflow"))
          ELSE LET a == Last(vm1.stack)
                   vm2 == [vm1 EXCEPT !.stack = Front(vm1.stack)]
               IN IF a.t # "I64" \/ b.t # "I64" THEN Fail(vm2, Err("TypeMismatch"))
                  ELSE [vm2 EXCEPT !.stack = Append(vm2.stack, I64(Bitwise("xor", a.v, b.v)))]

\* IrisVM::handle_bitwise_not_int32: `!x` on an I64.
handle_bitwise_not_int32(vm) ==
  IF vm.stack = <<>> THEN Fail(vm, Err("StackUnderflow"))
  ELSE LET val == Last(vm.stack)
           vm1 == [vm EXCEPT !.stack = Front(vm.stack)]
       IN IF val.t # "I64" THEN Fail(vm1, Err("TypeMismatch"))
          ELSE [vm1 EXCEPT !.stack = Append(vm1.stack, I64(0 - val.v - 1))]

\* A shift count outside 0..63 aborts in a build with overflow checks and is
\* taken modulo 64 in a build without.  The operands the runs draw are below
\* 2^31 in size and keep x * 2^y there, where `x << y` loses no bit; a right
\* shift by 31 or more leaves the sign alone.
\* IrisVM::handle_left_shift_int32: `x << y` on two I64.
handle_left_shift_int32(vm) ==
  IF vm.stack = <<>> THEN Fail(vm, Err("StackUnderflow"))
  ELSE LET b == Last(vm.stack)
           vm1 == [vm EXCEPT !.stack = Front(vm.stack)]
       IN IF vm1.stack = <<>> THEN Fail(vm1, Err("StackUnderflow"))
          ELSE LET a == Last(vm1.stack)
                   vm2 == [vm1 EXCEPT !.stack = Front(vm1.stack)]
               IN IF a.t # "I64" \/ b.t # "I64" THEN Fail(vm2, Err("TypeMismatch"))
                  ELSE IF (b.v < 0 \/ b.v >= 64) /\ vm.overflow_checks THEN Fail(vm2, Panic)
                  ELSE [vm2 EXCEPT !.stack = Append(vm2.stack, I64(IF a.v = 0 THEN 0 ELSE a.v * 2^(b.v % 64)))]

\* IrisVM::handle_right_shift_int32: `x >> y` on two I64.
handle_right_shift_int32(vm) ==
  IF vm.stack = <<>> THEN Fail(vm, Err("StackUnderflow"))
  ELSE LET b == Last(vm.stack)
           vm1 == [vm EXCEPT !.stack = Front(vm.stack)]
       IN IF vm1.stack = <<>> THEN Fail(vm1, Err("StackUnderflow"))
          ELSE LET a == Last(vm1.stack)
                   vm2 == [vm1 EXCEPT !.stack = Front(vm1.stack)]
               IN IF a.t # "I64" \/ b.t # "I64" THEN Fail(vm2, Err("TypeMismatch"))
                  ELSE IF (b.v < 0 \/ b.v >= 64) /\ vm.overflow_checks THEN Fail(vm2, Panic)
                  ELSE [vm2 EXCEPT !.stack = Append(vm2.stack, I64(IF b.v % 64 >= 31 THEN (IF a.v < 0 THEN 0 - 1 ELSE 0)
                                        ELSE a.v \div 2^(b.v % 64)))]

----------------------------------------------------------------------------
\* Stack shuffling, comparison and printing.

\* DuplicateTop arm of run() with IrisVM::peek_stack(0).
handle_duplicate_top(vm) ==
  IF vm.stack = <<>> THEN Fail(vm, Err("StackUnderflow"))
  ELSE [vm EXCEPT !.stack = Append(vm.stack, Last(vm.stack))]

\* IrisVM::handle_roll_stack_items: slice::rotate_right(1) of the top `count`
\* values, which takes the top value to the bottom of that window.
handle_roll_stack_items(vm0) ==
  LET r == read_byte(vm0) IN
  IF r.vm.status # Running THEN r.vm
  ELSE LET vm == r.vm
           count == r.b
           top == Len(vm.stack)
       IN IF top < count THEN Fail(vm, Err("StackUnderflow"))
          ELSE IF count = 0 THEN vm
          ELSE [vm EXCEPT !.stack = SubSeq(vm.stack, 1, top - count)
                                      \o <<vm.stack[top]>>
                                      \o SubSeq(vm.stack, top - count + 1, top - 1)]

\* IrisVM::handle_print_top_of_stack: the value is popped and rendered.
handle_print_top_of_stack(vm) ==
  IF vm.stack = <<>> THEN Fail(vm, Err("StackUnderflow"))
  ELSE [vm EXCEPT !.stack = Front(vm.stack)]

\* IrisVM::handle_less_than_int32.
handle_less_than_int32(vm) ==
  IF vm.stack = <<>> THEN Fail(vm, Err("StackUnderflow"))
  ELSE LET b == Last(vm.stack)
           vm1 == [vm EXCEPT !.stack = Front(vm.stack)]
       IN IF vm1.stack = <<>> THEN Fail(vm1, Err("StackUnderflow"))
          ELSE LET a == Last(vm1.stack)
                   vm2 == [vm1 EXCEPT !.stack = Front(vm1.stack)]
               IN IF a.t = "I32" /\ b.t = "I32"
                    THEN [vm2 EXCEPT !.stack = Append(vm2.stack, Bool(a.v < b.v))]
                    ELSE Fail(vm2, Err("TypeMismatch"))

----------------------------------------------------------------------------
\* Instances and arrays.

\* Fault injection for C21: the class is put back instead of an instance.
handle_create_new_instance_keeps_class(vm) ==
  IF vm.stack = <<>> THEN Fail(vm, Err("StackUnderflow"))
  ELSE IF Last(vm.stack).t # "Class"
    THEN Fail([vm EXCEPT !.stack = Front(vm.stack)], Err("NonClassValue"))
  ELSE vm

\* IrisVM::handle_create_new_instance: Instance::new(class) behind a new Rc.
handle_create_new_instance(vm) ==
  IF vm.stack = <<>> THEN Fail(vm, Err("StackUnderflow"))
  ELSE LET class_val == Last(vm.stack)
           vm1 == [vm EXCEPT !.stack = Front(vm.stack)]
       IN IF class_val.t # "Class" THEN Fail(vm1, Err("NonClassValue"))
          ELSE [vm1 EXCEPT
                  !.instances = Append(vm.instances, class_val.v),
                  !.stack = Append(vm1.stack,
                                   ObjectVal(Cardinality(HostObjectIds) + Len(vm.instances)))]

\* Number of positions of a vector that hold `val`.
Count(s, val) == Cardinality({i \in DOMAIN s : s[i] = val})

RECURSIVE SumCount(_, _, _)
SumCount(vecs, k, val) ==
  IF k = 0 THEN 0 ELSE Count(vecs[k], val) + SumCount(vecs, k - 1, val)

\* Rc::strong_count of an instance: the copies of its Value on the operand
\* stack, in the globals and in the arrays (the embedder keeps none).
strong_count(vm, val) ==
  Count(vm.stack, val) + Count(vm.globals, val)
    + SumCount(vm.arrays, Len(vm.arrays), val)

\* SetObjectProperty8 arm of run() with IrisVM::handle_set_object_property and
\* Instance::set_field.  Rc::get_mut gives the instance only when the popped
\* Value is its single owner; set_field is Vec::insert, which aborts when the
\* slot is past the length and otherwise makes the vector one longer.  The
\* single owner is dropped when the handler returns.
handle_set_object_property(vm0) ==
  LET r == read_byte(vm0) IN
  IF r.vm.status # Running THEN r.vm
  ELSE LET vm == r.vm
           index == r.b
       IN IF vm.stack = <<>> THEN Fail(vm, Err("StackUnderflow"))
          ELSE LET value == Last(vm.stack)
                   vm1 == [vm EXCEPT !.stack = Front(vm.stack)]
               IN IF vm1.stack = <<>> THEN Fail(vm1, Err("StackUnderflow"))
                  ELSE LET instance_val == Last(vm1.stack)
                           vm2 == [vm1 EXCEPT !.stack = Front(vm1.stack)]
                       IN IF instance_val.t # "Object" THEN Fail(vm2, Err("NonObjectValue"))
                          ELSE IF strong_count(vm2, instance_val) > 0 \/ value = instance_val
                                 THEN Fail(vm2, Err("InvalidOperand"))
                          ELSE IF index > fields_len(instance_val.v) THEN Fail(vm2, Panic)
                          ELSE vm2

\* CreateNewArray8 arm of run() with IrisVM::handle_create_new_array.
handle_create_new_array(vm0) ==
  LET r == read_byte(vm0) IN
  IF r.vm.status # Running THEN r.vm
  ELSE LET vm == r.vm
           num_elements == r.b
       IN IF Len(vm.stack) < num_elements THEN Fail(vm, Err("StackUnderflow"))
          ELSE [vm EXCEPT
                  !.arrays = Append(vm.arrays,
                                    SubSeq(vm.stack, Len(vm.stack) - num_elements + 1,
                                           Len(vm.stack))),
                  !.stack = Append(SubSeq(vm.stack, 1, Len(vm.stack) - num_elements),
                                   ArrayVal(Len(vm.arrays)))]

\* Fault injection for C23: the bounds check lets the index equal to the
\* length through and yields Null for it.
handle_get_array_index_inclusive(vm) ==
  IF vm.stack = <<>> THEN Fail(vm, Err("StackUnderflow"))
  ELSE LET index_val == Last(vm.stack)
           vm1 == [vm EXCEPT !.stack = Front(vm.stack)]
       IN IF vm1.stack = <<>> THEN Fail(vm1, Err("StackUnderflow"))
          ELSE LET array_val == Last(vm1.stack)
                   vm2 == [vm1 EXCEPT !.stack = Front(vm1.stack)]
               IN IF array_val.t = "Array" /\ index_val.t = "I64"
                    THEN LET array == vm.arrays[array_val.v + 1] IN
                         IF index_val.v < 0 \/ index_val.v > Len(array)
                           THEN Fail(vm2, Err("IndexOutOfBounds"))
                         ELSE IF index_val.v = Len(array)
                           THEN [vm2 EXCEPT !.stack = Append(vm2.stack, Null)]
                         ELSE [vm2 EXCEPT !.stack = Append(vm2.stack, array[index_val.v + 1])]
                    ELSE Fail(vm2, Err("TypeMismatch"))

\* IrisVM::handle_get_array_index.  `idx as usize` turns a negative index into
\* one above every length.
handle_get_array_index(vm) ==
  IF vm.stack = <<>> THEN Fail(vm, Err("StackUnderflow"))
  ELSE LET index_val == Last(vm.stack)
           vm1 == [vm EXCEPT !.stack = Front(vm.stack)]
       IN IF vm1.stack = <<>> THEN Fail(vm1, Err("StackUnderflow"))
          ELSE LET array_val == Last(vm1.stack)
                   vm2 == [vm1 EXCEPT !.stack = Front(vm1.stack)]
               IN IF array_val.t = "Array" /\ index_val.t = "I64"
                    THEN LET array == vm.arrays[array_val.v + 1] IN
                         IF index_val.v < 0 \/ index_val.v >= Len(array)
                           THEN Fail(vm2, Err("IndexOutOfBounds"))
                         ELSE [vm2 EXCEPT !.stack = Append(vm2.stack, array[index_val.v + 1])]
                    ELSE Fail(vm2, Err("TypeMismatch"))

\* Vec::resize(new_len, fill) on a vector no longer than new_len.
ResizeWith(s, new_len, fill) == s \o [i \in 1..(new_len - Len(s)) |-> fill]

\* Fault injection for C24: the new cells are filled with the stored value.
handle_set_array_index_fills_value(vm) ==
  IF Len(vm.stack) < 3 THEN Fail(vm, Err("StackUnderflow"))
  ELSE LET value == vm.stack[Len(vm.stack)]
           index_val == vm.stack[Len(vm.stack) - 1]
           array_val == vm.stack[Len(vm.stack) - 2]
           vm3 == [vm EXCEPT !.stack = SubSeq(vm.stack, 1, Len(vm.stack) - 3)]
       IN IF array_val.t = "Array" /\ index_val.t = "I64"
            THEN IF index_val.v < 0 THEN Fail(vm3, Panic)
                 ELSE LET array == vm.arrays[array_val.v + 1]
                          grown == IF index_val.v >= Len(array)
                                     THEN ResizeWith(array, index_val.v + 1, value)
                                     ELSE array
                      IN [vm3 EXCEPT !.arrays[array_val.v + 1] =
                                        [grown EXCEPT ![index_val.v + 1] = value]]
            ELSE Fail(vm3, Err("TypeMismatch"))

\* IrisVM::handle_set_array_index.  A negative index becomes a usize for which
\* `u_idx + 1` overflows or the resize exceeds the capacity of a Vec, and the
\* indexing that follows is out of range: the process aborts.
handle_set_array_index(vm) ==
  IF vm.stack = <<>> THEN Fail(vm, Err("StackUnderflow"))
  ELSE LET value == Last(vm.stack)
           vm1 == [vm EXCEPT !.stack = Front(vm.stack)]
       IN IF vm1.stack = <<>> THEN Fail(vm1, Err("StackUnderflow"))
          ELSE LET index_val == Last(vm1.stack)
                   vm2 == [vm1 EXCEPT !.stack = Front(vm1.stack)]
               IN IF vm2.stack = <<>> THEN Fail(vm2, Err("StackUnderflow"))
                  ELSE LET array_val == Last(vm2.stack)
                           vm3 == [vm2 EXCEPT !.stack = Front(vm2.stack)]
                       IN IF array_val.t = "Array" /\ index_val.t = "I64"
                            THEN IF index_val.v < 0 THEN Fail(vm3, Panic)
                                 ELSE LET array == vm.arrays[array_val.v + 1]
                                          grown == IF index_val.v >= Len(array)
                                                     THEN ResizeWith(array, index_val.v + 1, Null)
                                                     ELSE array
                                      IN [vm3 EXCEPT !.arrays[array_val.v + 1] =
                                                        [grown EXCEPT ![index_val.v + 1] = value]]
                            ELSE Fail(vm3, Err("TypeMismatch"))

----------------------------------------------------------------------------
\* Handlers whose body is todo!(): executing one aborts.

\* IrisVM::handle_finally_block.
handle_finally_block(vm) == Fail(vm, Panic)

\* IrisVM::handle_unwind_stack.
handle_unwind_stack(vm) == Fail(vm, Panic)

\* IrisVM::handle_atomic_add_int32.
handle_atomic_add_int32(vm) == Fail(vm, Panic)

----------------------------------------------------------------------------
\* Reading a cell of the code for the first time fixes it.

Min(a, b) == IF a < b THEN a ELSE b

\* What the cell at address i of function f can turn out to be: its octet when
\* the run has read it before, End at or past the known end of the code, and
\* otherwise any octet of `choices`, or End when no later cell has been read.
CellChoices(f, i, choices) ==
  IF i >= code_end[f] THEN {End}
  ELSE IF bytecode[f][i] # Unset THEN {bytecode[f][i]}
  ELSE choices \cup
       (IF \A j \in (i + 1)..(MaxCodeLen - 1) : bytecode[f][j] = Unset THEN {End} ELSE {})

FillCode(bc, f, i, b) ==
  IF b = Unset \/ b = End \/ i >= MaxCodeLen THEN bc ELSE [bc EXCEPT ![f][i] = b]

FillEnd(ce, f, i, b) ==
  IF b = End THEN [ce EXCEPT ![f] = Min(ce[f], i)] ELSE ce

----------------------------------------------------------------------------
\* The JIT (jit.rs): the thunks the native code calls, compile_function, and
\* the run of the native code, which calls the thunk of each instruction in
\* turn.  A panic in a thunk aborts the process.

JitPanic(nvm) == [nvm EXCEPT !.status = "panic"]

\* jit_push_null, and jit_push_i32 and its like for a constant.
jit_push(nvm, val) == [nvm EXCEPT !.stack = Append(nvm.stack, val)]

\* jit_pop_value: Vec::pop, whose None is ignored.
jit_pop_value(nvm) ==
  IF nvm.stack = <<>> THEN nvm ELSE [nvm EXCEPT !.stack = Front(nvm.stack)]

\* jit_duplicate_top.
jit_duplicate_top(nvm) ==
  IF nvm.stack = <<>> THEN JitPanic(nvm)
  ELSE [nvm EXCEPT !.stack = Append(nvm.stack, Last(nvm.stack))]

\* jit_print_top_of_stack: pops and renders, or renders "Stack is empty.".
jit_print_top_of_stack(nvm) ==
  IF nvm.stack = <<>> THEN nvm ELSE [nvm EXCEPT !.stack = Front(nvm.stack)]

\* jit_roll_stack_items: the value below the top `count` values goes to the top.
jit_roll_stack_items(nvm, count) ==
  LET len == Len(nvm.stack) IN
  IF count >= len THEN JitPanic(nvm)
  ELSE [nvm EXCEPT !.stack = SubSeq(nvm.stack, 1, len - count - 1)
                                \o SubSeq(nvm.stack, len - count + 1, len)
                                \o <<nvm.stack[len - count]>>]

\* jit_get_local_variable with IrisVM::current_frame_stack_offset.
jit_get_local_variable(nvm, index) ==
  IF nvm.stack_base + index >= Len(nvm.stack) THEN JitPanic(nvm)
  ELSE [nvm EXCEPT !.stack = Append(nvm.stack, nvm.stack[nvm.stack_base + index + 1])]

\* jit_set_local_variable: the value is popped, then stored.
jit_set_local_variable(nvm, index) ==
  IF nvm.stack = <<>> THEN JitPanic(nvm)
  ELSE LET value == Last(nvm.stack)
           popped == [nvm EXCEPT !.stack = Front(nvm.stack)]
       IN IF nvm.stack_base + index >= Len(popped.stack) THEN JitPanic(popped)
          ELSE [popped EXCEPT !.stack[nvm.stack_base + index + 1] = value]

\* jit_set_global_variable with IrisVM::set_global: the value is popped.
jit_set_global_variable(nvm, index) ==
  IF nvm.stack = <<>> THEN JitPanic(nvm)
  ELSE LET value == Last(nvm.stack)
           popped == [nvm EXCEPT !.stack = Front(nvm.stack)]
       IN IF index >= Len(nvm.globals) THEN JitPanic(popped)
          ELSE [popped EXCEPT !.globals[index + 1] = value]

\* The code emitted for AddInt32: jit_pop_i32 twice, iadd, jit_push_i32.
jit_add_int32(nvm) ==
  IF nvm.stack = <<>> THEN JitPanic(nvm)
  ELSE LET b == Last(nvm.stack)
           nvm1 == [nvm EXCEPT !.stack = Front(nvm.stack)]
       IN IF b.t # "I32" \/ nvm1.stack = <<>> THEN JitPanic(nvm1)
          ELSE LET a == Last(nvm1.stack)
                   nvm2 == [nvm1 EXCEPT !.stack = Front(nvm1.stack)]
               IN IF a.t # "I32" THEN JitPanic(nvm2)
                  ELSE jit_push(nvm2, I32(wrapping_add(a.v, b.v)))

\* The call the lowering loop of compile_function emits for an instruction.
Thunk(op, b1, nvm) ==
  CASE op = "PushNull" -> jit_push(nvm, Null)
    [] op = "PushConstant8" -> jit_push(nvm, constants(nvm.function)[b1 + 1])
    [] op = "PopStack" -> jit_pop_value(nvm)
    [] op = "DuplicateTop" -> jit_duplicate_top(nvm)
    [] op = "PrintTopOfStack" -> jit_print_top_of_stack(nvm)
    [] op = "RollStackItems" -> jit_roll_stack_items(nvm, b1)
    [] op = "GetLocalVariable8" -> jit_get_local_variable(nvm, b1)
    [] op = "SetLocalVariable8" -> jit_set_local_variable(nvm, b1)
    [] op = "SetGlobalVariable8" -> jit_set_global_variable(nvm, b1)
    [] op = "AddInt32" -> jit_add_int32(nvm)

\* The arms of the pre-scan of compile_function: the number of operand octets
\* it skips, or -1 for the default arm, which panics.
PreScanOperands(op) ==
  CASE op \in {"ReturnFromFunction", "PrintTopOfStack", "PushNull", "PopStack",
               "DuplicateTop", "LessThanInt32", "AddInt32"} -> 0
    [] op \in {"PushConstant8", "CreateNewArray8", "RollStackItems", "CallFunction",
               "GetLocalVariable8", "SetLocalVariable8", "GetGlobalVariable8",
               "SetGlobalVariable8", "DefineGlobalVariable8", "SetObjectProperty8",
               "ShortJump"} -> 1
    [] op \in {"InvokeMethod8", "UnconditionalJump", "JumpIfFalse"} -> 2
    [] OTHER -> 0 - 1

\* The pre-scan loop from address ip: FALSE when it panics (default arm, or a
\* jump whose offset octets are missing).
RECURSIVE pre_scan(_, _)
pre_scan(f, ip) ==
  IF ip >= code_end[f] THEN TRUE
  ELSE LET op == Decode(bytecode[f][ip])
           n == PreScanOperands(op)
       IN IF n < 0 THEN FALSE
          ELSE IF op \in {"ShortJump", "UnconditionalJump", "JumpIfFalse"}
                  /\ ip + n >= code_end[f] THEN FALSE
          ELSE pre_scan(f, ip + 1 + n)

\* target_ip of the pre-scan and of the lowering loop for the UnconditionalJump
\* or ShortJump at address start_of_instruction: the address of the opcode
\* plus the offset read as i16 or i8, cast to usize.
target_ip(f, start_of_instruction) ==
  LET offset ==
        IF Decode(bytecode[f][start_of_instruction]) = "ShortJump"
          THEN LET b == bytecode[f][start_of_instruction + 1]
               IN IF b >= 128 THEN b - 256 ELSE b
          ELSE LET w == bytecode[f][start_of_instruction + 1] * 256
                          + bytecode[f][start_of_instruction + 2]
               IN IF w >= 32768 THEN w - 65536 ELSE w
      target == start_of_instruction + offset
  IN IF target < 0 THEN UsizeModulus + target ELSE target

\* The keys of `blocks` the pre-scan creates from address ip on, for code it
\* passes and whose jumps are UnconditionalJump and ShortJump.
RECURSIVE blocks(_, _)
blocks(f, ip) ==
  IF ip >= code_end[f] THEN {}
  ELSE LET op == Decode(bytecode[f][ip]) IN
       (IF op \in {"UnconditionalJump", "ShortJump"} THEN {target_ip(f, ip)} ELSE {})
         \cup blocks(f, ip + 1 + PreScanOperands(op))

\* The lowering loop from address ip, for code the pre-scan has passed: the
\* addresses it emits code for, with -1 among them when it panics (an operand
\* octet or constant that is missing, a constant of a type it does not push).
\* After ReturnFromFunction and after a jump it goes on at the next key of
\* `blocks`, or stops.
RECURSIVE lowering(_, _)
lowering(f, ip) ==
  IF ip >= code_end[f] THEN {}
  ELSE LET op == Decode(bytecode[f][ip])
           n == PreScanOperands(op)
           after == ip + 1 + n
           next_ip == IF \E t \in blocks(f, 0) : t >= after /\ t < code_end[f]
                        THEN CHOOSE t \in blocks(f, 0) :
                               /\ t >= after
                               /\ \A u \in blocks(f, 0) : u >= after => t <= u
                        ELSE code_end[f]
       IN IF ip + n >= code_end[f] /\ n > 0 THEN {0 - 1}
          ELSE IF op = "PushConstant8"
                  /\ (bytecode[f][ip + 1] >= Len(constants(f))
                      \/ constants(f)[bytecode[f][ip + 1] + 1].t
                            \notin {"I32", "I64", "Null", "Bool", "Str"}) THEN {0 - 1}
          ELSE {ip} \cup lowering(f, IF op \in {"ReturnFromFunction", "UnconditionalJump",
                                                 "ShortJump"}
                                       THEN next_ip ELSE after)

\* One instruction of the native code of a function: the thunk the lowering
\* loop emitted for it, the branch for a jump, or the return.
native_step(nvm) ==
  LET f == nvm.function
      ip == nvm.ip
      op == IF ip >= code_end[f] THEN "ReturnFromFunction" ELSE Decode(bytecode[f][ip])
  IN IF op = "ReturnFromFunction" THEN [nvm EXCEPT !.status = "returned"]
     ELSE IF op \in {"UnconditionalJump", "ShortJump"}
       THEN [nvm EXCEPT !.ip = target_ip(f, ip)]
     ELSE [Thunk(op, IF PreScanOperands(op) > 0 THEN bytecode[f][ip + 1] ELSE Unset, nvm)
             EXCEPT !.ip = ip + 1 + PreScanOperands(op)]

\* The call of a native entry: the native code runs until it returns or
\* panics; `fuel` instructions without either is a loop that never returns.
RECURSIVE native_run(_, _)
native_run(nvm, fuel) ==
  IF nvm.status # "running" \/ fuel = 0 THEN nvm
  ELSE native_run(native_step(nvm), fuel - 1)

\* IrisVM::handle_call_function.  callee_pos = len - 1 - arg_count is computed on
\* usize: with too few values it overflows or indexes out of range (abort).
\* A Native callee is entered through its native entry on the VM as it is:
\* no frame is pushed and nothing is taken from the operand stack.
handle_call_function(vm0) ==
  LET r == read_byte(vm0) IN
  IF r.vm.status # Running THEN r.vm
  ELSE LET vm == r.vm
           arg_count == r.b
       IN IF Len(vm.stack) < 1 + arg_count THEN Fail(vm, Panic)
          ELSE LET callee_pos == Len(vm.stack) - 1 - arg_count
                   callee == vm.stack[callee_pos + 1]
               IN IF callee.t # "Function" THEN Fail(vm, Err("NonCallableValue"))
                  ELSE IF vm.functions[callee.v].kind = "Native"
                    THEN LET ended ==
                               native_run([stack |-> vm.stack, globals |-> vm.globals,
                                           stack_base |-> Last(vm.frames).stack_base,
                                           function |-> callee.v, ip |-> 0,
                                           status |-> "running"],
                                          code_end[callee.v] + 1)
                             after == [vm EXCEPT !.stack = ended.stack,
                                                 !.globals = ended.globals]
                         IN IF ended.status = "returned" THEN after
                            ELSE IF ended.status = "panic" THEN Fail(after, Panic)
                            ELSE Fail(after, [k |-> "hang", v |-> Null, e |-> ""])
                  ELSE push_frame([vm EXCEPT !.stack = RemoveAt(vm.stack, callee_pos)],
                                  callee.v, arg_count)

\* Number of immediate octets the handler of an opcode reads first.
OperandLen(op) ==
  CASE op \in {"PushConstant8", "CallFunction", "TailCallFunction", "BeginTryBlock",
               "ShortJump", "GetLocalVariable8", "SetLocalVariable8",
               "GetGlobalVariable8", "DefineGlobalVariable8", "SetGlobalVariable8",
               "SetObjectProperty8", "CreateNewArray8", "RollStackItems"} -> 1
    [] op \in {"CatchException", "UnconditionalJump", "JumpIfFalse", "LoopJump",
               "InvokeMethod8"} -> 2
    [] OTHER -> 0

\* The match of run() on the decoded opcode.
Dispatch(op, vm) ==
  CASE op = "Unknown" -> handle_unknown(vm)
    [] op = "PushConstant8" -> handle_push_constant8(vm)
    [] op = "PushNull" -> handle_push_null(vm)
    [] op = "PopStack" -> handle_pop_stack(vm)
    [] op = "CallFunction" -> handle_call_function(vm)
    [] op = "ReturnFromFunction" -> handle_return_from_function(vm)
    [] op = "TailCallFunction" -> handle_tail_call_function(vm)
    [] op = "ThrowException" -> handle_throw_exception(vm)
    [] op = "BeginTryBlock" -> handle_begin_try_block(vm)
    [] op = "EndTryBlock" -> handle_end_try_block(vm)
    [] op = "CatchException" -> handle_catch_exception(vm)
    [] op = "GetLocalVariable8" -> handle_get_local_variable(vm)
    [] op = "SetLocalVariable8" -> handle_set_local_variable(vm)
    [] op = "GetGlobalVariable8" -> handle_get_global_variable(vm)
    [] op = "DefineGlobalVariable8" -> handle_define_global_variable(vm)
    [] op = "SetGlobalVariable8" -> handle_set_global_variable(vm)
    [] op = "InvokeMethod8" -> handle_invoke_method(vm)
    [] op = "UnconditionalJump" -> handle_unconditional_jump(vm)
    [] op = "ShortJump" -> handle_short_jump(vm)
    [] op = "JumpIfFalse" -> handle_jump_if_false(vm)
    [] op = "LoopJump" -> handle_loop_jump(vm)
    [] op = "AddInt32" -> handle_add_int32(vm)
    [] op = "DivideInt32" -> handle_divide_int32(vm)
    [] op = "SubtractInt32" -> handle_subtract_int32(vm)
    [] op = "DuplicateTop" -> handle_duplicate_top(vm)
    [] op = "RollStackItems" -> handle_roll_stack_items(vm)
    [] op = "PrintTopOfStack" -> handle_print_top_of_stack(vm)
    [] op = "LessThanInt32" -> handle_less_than_int32(vm)
    [] op = "CreateNewInstance" -> handle_create_new_instance(vm)
    [] op = "SetObjectProperty8" -> handle_set_object_property(vm)
    [] op = "CreateNewArray8" -> handle_create_new_array(vm)
    [] op = "GetArrayIndexInt32" -> handle_get_array_index(vm)
    [] op = "SetArrayIndexInt32" -> handle_set_array_index(vm)
    [] op = "NegateInt32" -> handle_negate_int32(vm)
    [] op = "AbsoluteInt32" -> handle_absolute_int32(vm)
    [] op = "BitwiseAndInt32" -> handle_bitwise_and_int32(vm)
    [] op = "BitwiseOrInt32" -> handle_bitwise_or_int32(vm)
    [] op = "BitwiseXorInt32" -> handle_bitwise_xor_int32(vm)
    [] op = "BitwiseNotInt32" -> handle_bitwise_not_int32(vm)
    [] op = "LeftShiftInt32" -> handle_left_shift_int32(vm)
    [] op = "RightShiftInt32" -> handle_right_shift_int32(vm)
    [] op = "FinallyBlock" -> handle_finally_block(vm)
    [] op = "UnwindStack" -> handle_unwind_stack(vm)
    [] op = "AtomicAddInt32" -> handle_atomic_add_int32(vm)

\* The state an instruction started from, kept for the properties.
Snapshot(op, b1, b2) ==
  [op |-> op, b1 |-> b1, b2 |-> b2,
   stack |-> stack, frames |-> frames, try_frames |-> try_frames,
   globals |-> globals, defined |-> defined, arrays |-> arrays]

\* One iteration of the loop of run() that fetches opcode `op`.
Instr(op) ==
  /\ frames # <<>>
  /\ steps < step_limit
  /\ LET frame == Last(frames)
         f == frame.function
         n == OperandLen(op)
     IN \E b0 \in CellChoices(f, frame.ip, OpChoices) :
          /\ b0 # End
          /\ Decode(b0) = op
          /\ \E b1 \in (IF n >= 1 THEN CellChoices(f, frame.ip + 1, OperandChoices(op, 1))
                                      ELSE {Unset}) :
             \E b2 \in (IF n >= 2 /\ b1 # End
                          THEN CellChoices(f, frame.ip + 2, OperandChoices(op, 2))
                          ELSE {Unset}) :
               \E bc \in {FillCode(FillCode(FillCode(bytecode, f, frame.ip, b0),
                                           f, frame.ip + 1, b1), f, frame.ip + 2, b2)} :
               \E ce \in {FillEnd(FillEnd(code_end, f, frame.ip + 1, b1), f, frame.ip + 2, b2)} :
               \E vm1 \in {Dispatch(op, [stack |-> stack,
                           frames |-> SetTopIp(frames, frame.ip + 1),
                           try_frames |-> try_frames,
                           bytecode |-> bc, code_end |-> ce,
                           status |-> Running, next_id |-> next_id,
                           globals |-> globals, defined |-> defined,
                           overflow_checks |-> overflow_checks,
                           arrays |-> arrays, instances |-> instances,
                           functions |-> functions])} :
                  /\ stack' = vm1.stack
                  /\ frames' = vm1.frames
                  /\ try_frames' = vm1.try_frames
                  /\ bytecode' = bc
                  /\ code_end' = ce
                  /\ next_id' = vm1.next_id
                  /\ globals' = vm1.globals
                  /\ defined' = vm1.defined
                  /\ arrays' = vm1.arrays
                  /\ instances' = vm1.instances
                  /\ UNCHANGED <<overflow_checks, step_limit, functions, native_vm,
                               class_methods>>
                  /\ status' = IF vm1.status = Running /\ vm1.frames = <<>> THEN Ok
                               ELSE vm1.status
                  /\ steps' = steps + 1
                  /\ prev' = Snapshot(op, b1, b2)

\* Fault injection for C31: the frame that ends takes its window with it.
FrameEnd_drops_window ==
  /\ status = Running
  /\ frames # <<>>
  /\ steps < step_limit
  /\ LET frame == Last(frames) IN
       /\ End \in CellChoices(frame.function, frame.ip, OpChoices)
       /\ code_end' = FillEnd(code_end, frame.function, frame.ip, End)
       /\ stack' = Truncate(stack, frame.stack_base)
  /\ frames' = Front(frames)
  /\ status' = IF frames' = <<>> THEN Ok ELSE Running
  /\ steps' = steps + 1
  /\ prev' = Snapshot("FrameEnd", Unset, Unset)
  /\ UNCHANGED <<try_frames, bytecode, next_id, globals, defined, overflow_checks,
                 arrays, instances, step_limit, functions, native_vm, class_methods>>

\* run(): the IP of the topmost frame is at or past the end of its code.
FrameEnd ==
  /\ status = Running
  /\ frames # <<>>
  /\ steps < step_limit
  /\ LET frame == Last(frames) IN
       /\ End \in CellChoices(frame.function, frame.ip, OpChoices)
       /\ code_end' = FillEnd(code_end, frame.function, frame.ip, End)
  /\ frames' = Front(frames)
  /\ status' = IF frames' = <<>> THEN Ok ELSE Running
  /\ steps' = steps + 1
  /\ prev' = Snapshot("FrameEnd", Unset, Unset)
  /\ UNCHANGED <<stack, try_frames, bytecode, next_id, globals, defined, overflow_checks,
                 arrays, instances, step_limit, functions, native_vm, class_methods>>

Unknown ==
  /\ status = Running
  /\ Instr("Unknown")

PushConstant8 ==
  /\ status = Running
  /\ Instr("PushConstant8")

PushNull ==
  /\ status = Running
  /\ Instr("PushNull")

PopStack ==
  /\ status = Running
  /\ Instr("PopStack")

CallFunction ==
  /\ status = Running
  /\ Instr("CallFunction")

ReturnFromFunction ==
  /\ status = Running
  /\ Instr("ReturnFromFunction")

TailCallFunction ==
  /\ status = Running
  /\ Instr("TailCallFunction")

ThrowException ==
  /\ status = Running
  /\ Instr("ThrowException")

BeginTryBlock ==
  /\ status = Running
  /\ Instr("BeginTryBlock")

EndTryBlock ==
  /\ status = Running
  /\ Instr("EndTryBlock")

CatchException ==
  /\ status = Running
  /\ Instr("CatchException")


GetLocalVariable8 ==
  /\ status = Running
  /\ Instr("GetLocalVariable8")

SetLocalVariable8 ==
  /\ status = Running
  /\ Instr("SetLocalVariable8")

GetGlobalVariable8 ==
  /\ status = Running
  /\ Instr("GetGlobalVariable8")

DefineGlobalVariable8 ==
  /\ status = Running
  /\ Instr("DefineGlobalVariable8")

SetGlobalVariable8 ==
  /\ status = Running
  /\ Instr("SetGlobalVariable8")

InvokeMethod8 ==
  /\ status = Running
  /\ Instr("InvokeMethod8")

UnconditionalJump ==
  /\ status = Running
  /\ Instr("UnconditionalJump")

ShortJump ==
  /\ status = Running
  /\ Instr("ShortJump")

JumpIfFalse ==
  /\ status = Running
  /\ Instr("JumpIfFalse")

LoopJump ==
  /\ status = Running
  /\ Instr("LoopJump")

AddInt32 ==
  /\ status = Running
  /\ Instr("AddInt32")

DivideInt32 ==
  /\ status = Running
  /\ Instr("DivideInt32")

SubtractInt32 ==
  /\ status = Running
  /\ Instr("SubtractInt32")

NegateInt32 ==
  /\ status = Running
  /\ Instr("NegateInt32")

AbsoluteInt32 ==
  /\ status = Running
  /\ Instr("AbsoluteInt32")

BitwiseAndInt32 ==
  /\ status = Running
  /\ Instr("BitwiseAndInt32")

BitwiseOrInt32 ==
  /\ status = Running
  /\ Instr("BitwiseOrInt32")

BitwiseXorInt32 ==
  /\ status = Running
  /\ Instr("BitwiseXorInt32")

BitwiseNotInt32 ==
  /\ status = Running
  /\ Instr("BitwiseNotInt32")

LeftShiftInt32 ==
  /\ status = Running
  /\ Instr("LeftShiftInt32")

RightShiftInt32 ==
  /\ status = Running
  /\ Instr("RightShiftInt32")

FinallyBlock ==
  /\ status = Running
  /\ Instr("FinallyBlock")

UnwindStack ==
  /\ status = Running
  /\ Instr("UnwindStack")

AtomicAddInt32 ==
  /\ status = Running
  /\ Instr("AtomicAddInt32")

RollStackItems ==
  /\ status = Running
  /\ Instr("RollStackItems")

DuplicateTop ==
  /\ status = Running
  /\ Instr("DuplicateTop")

PrintTopOfStack ==
  /\ status = Running
  /\ Instr("PrintTopOfStack")

LessThanInt32 ==
  /\ status = Running
  /\ Instr("LessThanInt32")

CreateNewInstance ==
  /\ status = Running
  /\ Instr("CreateNewInstance")

SetObjectProperty8 ==
  /\ status = Running
  /\ Instr("SetObjectProperty8")

CreateNewArray8 ==
  /\ status = Running
  /\ Instr("CreateNewArray8")

GetArrayIndexInt32 ==
  /\ status = Running
  /\ Instr("GetArrayIndexInt32")

SetArrayIndexInt32 ==
  /\ status = Running
  /\ Instr("SetArrayIndexInt32")

\* Arrays the embedder made: array 0 holds two Null, array 1 holds I32(1).
HostArrays == << <<Null, Null>>, <<I32(1)>> >>

\* IrisVM::new, the embedder's values and push_frame(function 0, arg_count).
InitWith(stacks) ==
  /\ stack \in stacks
  /\ arrays = HostArrays
  /\ instances = <<>>
  /\ step_limit = MaxSteps
  /\ functions = [f \in FuncIds |-> new_bytecode]
  /\ native_vm = NoNativeRun
  /\ class_methods = <<>>
  /\ \E arg_count \in 0..Len(stack) :
       /\ frames = <<[function |-> 0, ip |-> 0, stack_base |-> Len(stack) - arg_count,
                      fid |-> 0]>>
  /\ try_frames = <<>>
  /\ bytecode = [f \in FuncIds |-> [i \in 0..(MaxCodeLen - 1) |-> Unset]]
  /\ code_end = [f \in FuncIds |-> MaxCodeLen]
  /\ status = Running
  /\ steps = 0
  /\ prev = [op |-> "none", b1 |-> Unset, b2 |-> Unset,
             stack |-> <<>>, frames |-> <<>>, try_frames |-> <<>>,
             globals |-> <<>>, defined |-> {}, arrays |-> <<>>]
  /\ next_id = 1
  /\ globals = <<>>
  /\ defined = {}
  /\ overflow_checks \in BOOLEAN

Init == InitWith(InitStacks)

Next ==
  \/ Unknown
  \/ PushConstant8
  \/ PushNull
  \/ PopStack
  \/ CallFunction
  \/ ReturnFromFunction
  \/ TailCallFunction
  \/ ThrowException
  \/ BeginTryBlock
  \/ EndTryBlock
  \/ CatchException
  \/ FrameEnd

Spec == Init /\ [][Next]_vars

\* Runs of programs made of jumps and protected regions.
InitFlow == InitWith(InitStacksFlow)

NextFlow ==
  \/ Unknown
  \/ PushNull
  \/ PopStack
  \/ UnconditionalJump
  \/ ShortJump
  \/ JumpIfFalse
  \/ LoopJump
  \/ BeginTryBlock
  \/ FrameEnd

SpecFlow == InitFlow /\ [][NextFlow]_vars

\* Runs of programs made of arithmetic and the unimplemented opcodes.
InitArith == InitWith(InitStacksArith)

NextArith ==
  \/ PushNull
  \/ PopStack
  \/ GetLocalVariable8
  \/ AddInt32
  \/ DivideInt32
  \/ SubtractInt32
  \/ NegateInt32
  \/ AbsoluteInt32
  \/ FinallyBlock
  \/ UnwindStack
  \/ AtomicAddInt32
  \/ FrameEnd

SpecArith == InitArith /\ [][NextArith]_vars

----------------------------------------------------------------------------
\* Runs of whole programs (tests/class_test.rs, tests/dev_test.rs).

\* Function.bytecode as the octet of every address.
Code(octets) == [i \in 0..(Len(octets) - 1) |-> octets[i + 1]]

\* Main of the class test: GetGlobalVariable8 0; CreateNewInstance;
\* InvokeMethod8 m 0; ReturnFromFunction.
ClassCallMain(m) == <<19, 0, 29, 30, m, 0, 44>>

\* Bodies of a method without arguments: PushConstant8 k; Return -- PushNull;
\* Return -- PushConstant8 0; DuplicateTop; PrintTopOfStack; Return (the
\* class test) -- Return alone -- PushNull; PopStack; PopStack; Return.
MethodBodies ==
  { <<1, 0, 44>>, <<1, 1, 44>>, <<3, 44>>, <<1, 0, 7, 100, 44>>, <<44>>,
    <<3, 6, 6, 44>> }

\* The counting loop of the interpreter test, with local 0 as the counter and
\* constants 0 (zero), 1 (one) and 2 (the limit):
\*    0 PushConstant8 0      2 SetLocalVariable8 0
\*    4 GetLocalVariable8 0  6 PushConstant8 2      8 LessThanInt32
\*    9 JumpIfFalse +10 (to 22)
\*   12 GetLocalVariable8 0 14 PushConstant8 1     16 AddInt32
\*   17 SetLocalVariable8 0 19 UnconditionalJump 0xFFEE (-18, back to 4)
\*   22 GetLocalVariable8 0 24 PrintTopOfStack
CountLoop ==
  <<1, 0, 17, 0, 15, 0, 1, 2, 53, 41, 0, 10, 15, 0, 1, 1, 60, 17, 0, 40, 255, 238,
    15, 0, 100>>

\* PushConstant8 0; PrintTopOfStack; ReturnFromFunction.
HelloWorld == <<1, 0, 100, 44>>

\* Programs without ReturnFromFunction: PushConstant8 0; PushConstant8 1 --
\* and twice PushConstant8 0; PrintTopOfStack.
PushConstants == <<1, 0, 1, 1>>
PushPrintPairs == <<1, 0, 100, 1, 0, 100>>

\* The functions the embedder built: `codes` gives the octets of some of them.
LoadCode(codes) ==
  /\ bytecode = [f \in FuncIds |->
                  IF f \in DOMAIN codes THEN Code(codes[f])
                  ELSE [i \in 0..(MaxCodeLen - 1) |-> Unset]]
  /\ code_end = [f \in FuncIds |->
                  IF f \in DOMAIN codes THEN Len(codes[f]) ELSE MaxCodeLen]

\* IrisVM::new, the embedder's functions, classes and globals, and
\* push_frame(main, 0) on an empty operand stack.
InitScenario ==
  /\ stack = <<>>
  /\ try_frames = <<>>
  /\ status = Running
  /\ steps = 0
  /\ step_limit = MaxSteps * 4
  /\ prev = [op |-> "none", b1 |-> Unset, b2 |-> Unset,
             stack |-> <<>>, frames |-> <<>>, try_frames |-> <<>>,
             globals |-> <<>>, defined |-> {}, arrays |-> <<>>]
  /\ next_id = 1
  /\ overflow_checks \in BOOLEAN
  /\ arrays = HostArrays
  /\ instances = <<>>
  /\ functions = [f \in FuncIds |-> new_bytecode]
  /\ native_vm = NoNativeRun
  /\ class_methods = <<>>
  /\ \/ /\ \E c \in ClassIds : /\ globals = <<ClassVal(c)>>
                                /\ defined = {0}
        /\ \E m \in {0, 1}, body \in MethodBodies :
              LoadCode((0 :> ClassCallMain(m)) @@ (1 :> body))
        /\ frames = <<[function |-> 0, ip |-> 0, stack_base |-> 0, fid |-> 0]>>
     \/ /\ globals = <<>>
        /\ defined = {}
        /\ \E f \in {2, 3} :
              /\ \E program \in (IF f = 2 THEN {CountLoop, PushConstants}
                                          ELSE {HelloWorld, PushPrintPairs}) :
                   LoadCode((f :> program))
              /\ frames = <<[function |-> f, ip |-> 0, stack_base |-> 0, fid |-> 0]>>

NextScenario ==
  \/ PushConstant8
  \/ PushNull
  \/ PopStack
  \/ DuplicateTop
  \/ PrintTopOfStack
  \/ GetLocalVariable8
  \/ SetLocalVariable8
  \/ GetGlobalVariable8
  \/ CreateNewInstance
  \/ InvokeMethod8
  \/ ReturnFromFunction
  \/ LessThanInt32
  \/ AddInt32
  \/ JumpIfFalse
  \/ UnconditionalJump
  \/ FrameEnd

SpecScenario == InitScenario /\ [][NextScenario]_vars

----------------------------------------------------------------------------
\* Compilation and the run of native code.

\* Fault injection for C28: the switch takes the bytecode away.
switch_native_takes_bytecode(function) ==
  [function EXCEPT !.native = "Some", !.kind = "Native", !.bytecode = "None"]

\* Function::switch_native.
switch_native(function) == [function EXCEPT !.native = "Some", !.kind = "Native"]

\* IrisCompiler::compile_function on the function the embedder loaded.  It
\* returns nothing: it ends by switch_native or panics.  A block of `blocks`
\* that the lowering loop never switched to has no terminator, which the
\* definition of the function in the module rejects (define_function(..).unwrap()).
CompileFunction ==
  /\ status.k # "panic"
  /\ native_vm.status # "idle"
  /\ \E f \in {native_vm.function} :
       /\ functions[f].bytecode = "Some"
       /\ IF /\ pre_scan(f, 0)
             /\ (0 - 1) \notin lowering(f, 0)
             /\ blocks(f, 0) \subseteq lowering(f, 0)
            THEN /\ functions' = [functions EXCEPT ![f] = switch_native(functions[f])]
                 /\ UNCHANGED status
            ELSE /\ status' = Panic
                 /\ UNCHANGED functions
  /\ prev' = Snapshot("CompileFunction", Unset, Unset)
  /\ UNCHANGED <<stack, frames, try_frames, bytecode, code_end, steps, next_id, globals,
                 defined, overflow_checks, arrays, instances, step_limit, native_vm,
                 class_methods>>

\* The native code of the function runs its next instruction, once the
\* interpreted run of the same bytecode has ended.
NativeStep ==
  /\ native_vm.status = "running"
  /\ functions[native_vm.function].kind = "Native"
  /\ status.k \in {"ok", "error"}
  /\ native_vm' = native_step(native_vm)
  /\ UNCHANGED <<stack, frames, try_frames, bytecode, code_end, status, steps, prev, next_id,
                 globals, defined, overflow_checks, arrays, instances, step_limit,
                 functions, class_methods>>

\* Longest program given to the JIT, in instructions.
MaxProgramLen == 2

\* Instructions of the programs given to the JIT: PushNull, PopStack,
\* DuplicateTop, PushConstant8 0, Get/SetLocalVariable8 0,
\* SetGlobalVariable8 0, RollStackItems 1 and 2, AddInt32, PrintTopOfStack,
\* ReturnFromFunction, UnconditionalJump 3 and 0, ShortJump 2, and
\* ThrowException, AtomicAddInt32 and SubtractInt32.
JitInstructions ==
  { <<40, 0, 3>>, <<40, 0, 0>>, <<46, 2>>,
    <<3>>, <<6>>, <<7>>, <<1, 0>>, <<15, 0>>, <<17, 0>>, <<23, 0>>,
    <<24, 1>>, <<24, 2>>, <<60>>, <<100>>, <<44>>, <<90>>, <<102>>, <<61>> }

RECURSIVE Programs(_)
Programs(n) ==
  IF n = 0 THEN {<<>>}
  ELSE LET shorter == Programs(n - 1) IN
       shorter \cup {p \o i : p \in shorter, i \in JitInstructions}

\* IrisVM::new, function 2 built from a program, a global, push_frame with
\* every value of the stack as an argument; and the same state for the run
\* of the native code.
InitJit ==
  /\ stack \in {<<>>, <<I32(1), I32(5)>>, <<I32(1), I32(5), I32(7)>>}
  /\ frames = <<[function |-> 2, ip |-> 0, stack_base |-> 0, fid |-> 0]>>
  /\ try_frames = <<>>
  /\ status = Running
  /\ steps = 0
  /\ step_limit = MaxSteps
  /\ prev = [op |-> "none", b1 |-> Unset, b2 |-> Unset,
             stack |-> <<>>, frames |-> <<>>, try_frames |-> <<>>,
             globals |-> <<>>, defined |-> {}, arrays |-> <<>>]
  /\ next_id = 1
  /\ globals = <<I32(9)>>
  /\ defined = {0}
  /\ overflow_checks \in BOOLEAN
  /\ arrays = HostArrays
  /\ instances = <<>>
  /\ functions = [f \in FuncIds |-> new_bytecode]
  /\ \E program \in Programs(MaxProgramLen) \ {<<>>} : LoadCode((2 :> program))
  /\ native_vm = [stack |-> stack, globals |-> globals, stack_base |-> 0,
                  function |-> 2, ip |-> 0, status |-> "running"]
  /\ class_methods = <<>>

NextJit ==
  \/ CompileFunction
  \/ NativeStep
  \/ PushConstant8
  \/ PushNull
  \/ PopStack
  \/ DuplicateTop
  \/ RollStackItems
  \/ PrintTopOfStack
  \/ GetLocalVariable8
  \/ SetLocalVariable8
  \/ SetGlobalVariable8
  \/ AddInt32
  \/ UnconditionalJump
  \/ ShortJump
  \/ SubtractInt32
  \/ ThrowException
  \/ AtomicAddInt32
  \/ ReturnFromFunction
  \/ FrameEnd

SpecJit == InitJit /\ [][NextJit]_vars

\* Bodies of the function that is called, compiled or not: PushNull; Return
\* -- GetLocalVariable8 0; Return -- GetLocalVariable8 0; DuplicateTop;
\* AddInt32; Return -- GetLocalVariable8 0 alone.
CalleeBodies == { <<3, 44>>, <<15, 0, 44>>, <<15, 0, 7, 60, 44>>, <<15, 0>> }

\* IrisVM::new, function 1 built from a body and function 0 from
\* CallFunction n, the operand stack holding the caller's locals, function 1
\* and its n arguments, and push_frame(function 0, 0) with the locals as its
\* window from slot 0 (stack_base 0).
InitCall ==
  /\ \E locals \in {<<>>, <<I32(1)>>}, args \in {<<>>, <<I32(5)>>, <<I32(5), I32(7)>>} :
       /\ stack = locals \o <<FunctionVal(1)>> \o args
       /\ \E body \in CalleeBodies :
            LoadCode((0 :> <<43, Len(args)>>) @@ (1 :> body))
  /\ frames = <<[function |-> 0, ip |-> 0, stack_base |-> 0, fid |-> 0]>>
  /\ try_frames = <<>>
  /\ status = Running
  /\ steps = 0
  /\ step_limit = MaxSteps * 2
  /\ prev = [op |-> "none", b1 |-> Unset, b2 |-> Unset,
             stack |-> <<>>, frames |-> <<>>, try_frames |-> <<>>,
             globals |-> <<>>, defined |-> {}, arrays |-> <<>>]
  /\ next_id = 1
  /\ globals = <<>>
  /\ defined = {}
  /\ overflow_checks \in BOOLEAN
  /\ arrays = HostArrays
  /\ instances = <<>>
  /\ functions = [f \in FuncIds |-> new_bytecode]
  /\ native_vm = [NoNativeRun EXCEPT !.function = 1, !.status = "loaded"]
  /\ class_methods = <<>>

NextCall ==
  \/ CompileFunction
  \/ CallFunction
  \/ PushNull
  \/ GetLocalVariable8
  \/ DuplicateTop
  \/ AddInt32
  \/ ReturnFromFunction
  \/ FrameEnd

SpecCall == InitCall /\ [][NextCall]_vars

\* Class::add_method: Vec::insert(key, method), which moves every method at
\* or after `key` one slot up and aborts when `key` is past the length.
add_method(key, method) ==
  /\ status = Running
  /\ Len(class_methods) < Cardinality(FuncIds)
  /\ IF key > Len(class_methods)
       THEN /\ status' = Panic
            /\ UNCHANGED class_methods
       ELSE /\ class_methods' = SubSeq(class_methods, 1, key) \o <<method>>
                                  \o SubSeq(class_methods, key + 1, Len(class_methods))
            /\ UNCHANGED status
  /\ prev' = Snapshot("add_method", key, method)
  /\ UNCHANGED <<stack, frames, try_frames, bytecode, code_end, steps, next_id, globals,
                 defined, overflow_checks, arrays, instances, step_limit, functions,
                 native_vm>>

\* The embedder builds a class: Class::new, then add_method for slots and
\* methods of its choice.
InitClass == InitWith({<<>>})

NextClass == \E key \in 0..Cardinality(FuncIds), method \in FuncIds : add_method(key, method)

SpecClass == InitClass /\ [][NextClass]_vars

\* Programs of bitwise operations and shifts: one of the six, one of them
\* followed by BitwiseNotInt32, and BitwiseNotInt32 followed by a bitwise
\* operation.
BitPrograms ==
  {<<op>> : op \in 66..71} \cup {<<op, 69>> : op \in 66..71} \cup {<<69, op>> : op \in 66..69}

\* IrisVM::new, function 0 built from a program, the embedder's operand stack
\* and push_frame(function 0, 0).
InitBits ==
  /\ stack \in InitStacksBits
  /\ \E program \in BitPrograms : LoadCode((0 :> program))
  /\ frames = <<[function |-> 0, ip |-> 0, stack_base |-> Len(stack), fid |-> 0]>>
  /\ try_frames = <<>>
  /\ status = Running
  /\ steps = 0
  /\ step_limit = MaxSteps
  /\ prev = [op |-> "none", b1 |-> Unset, b2 |-> Unset,
             stack |-> <<>>, frames |-> <<>>, try_frames |-> <<>>,
             globals |-> <<>>, defined |-> {}, arrays |-> <<>>]
  /\ next_id = 1
  /\ globals = <<>>
  /\ defined = {}
  /\ overflow_checks \in BOOLEAN
  /\ arrays = HostArrays
  /\ instances = <<>>
  /\ functions = [f \in FuncIds |-> new_bytecode]
  /\ native_vm = NoNativeRun
  /\ class_methods = <<>>

NextBits ==
  \/ BitwiseAndInt32
  \/ BitwiseOrInt32
  \/ BitwiseXorInt32
  \/ BitwiseNotInt32
  \/ LeftShiftInt32
  \/ RightShiftInt32
  \/ FrameEnd

SpecBits == InitBits /\ [][NextBits]_vars

\* Runs of programs made of instance and array instructions.
InitHeap == InitWith(InitStacksHeap)

NextHeap ==
  \/ PopStack
  \/ DuplicateTop
  \/ CreateNewInstance
  \/ SetObjectProperty8
  \/ CreateNewArray8
  \/ GetArrayIndexInt32
  \/ SetArrayIndexInt32
  \/ FrameEnd

SpecHeap == InitHeap /\ [][NextHeap]_vars

\* Runs of programs made of variable accesses and method invocations.
InitData == InitWith(InitStacksData)

NextData ==
  \/ PushNull
  \/ PopStack
  \/ GetLocalVariable8
  \/ SetLocalVariable8
  \/ GetGlobalVariable8
  \/ DefineGlobalVariable8
  \/ SetGlobalVariable8
  \/ InvokeMethod8
  \/ ReturnFromFunction
  \/ FrameEnd

SpecData == InitData /\ [][NextData]_vars

----------------------------------------------------------------------------
\* Properties.  `prev` holds the instruction executed last and the operand
\* stack, frames and protected regions it started from.

PrevFrame == Last(prev.frames)
PrevTop == Last(prev.stack)
PrevTry == Last(prev.try_frames)
HasOperand1 == prev.b1 # Unset /\ prev.b1 # End
HasOperand2 == HasOperand1 /\ prev.b2 # Unset /\ prev.b2 # End

\* C1: at every instruction boundary every live frame's stack_base is at most
\* the operand-stack length.
C1_StackBaseWithinStack ==
  status = Running => \A i \in 1..Len(frames) : frames[i].stack_base <= Len(stack)

C3_ReturnReplacesWindow ==
  (prev.op = "ReturnFromFunction" /\ prev.stack # <<>>)
  => LET base == PrevFrame.stack_base IN
     /\ frames = Front(prev.frames)
     /\ Len(stack) = base + 1
     /\ stack[base + 1] = PrevTop
     /\ \A i \in 1..base : i <= Len(prev.stack) /\ stack[i] = prev.stack[i]

\* C4: ThrowException with a non-empty TryFrame stack pops the topmost TryFrame,
\* leaves the operand stack at exactly (captured height + 1) with the thrown
\* value on top, and sets the active frame's IP to the captured handler IP.
C4_ThrowRestoresHeight ==
  (prev.op = "ThrowException" /\ prev.stack # <<>> /\ prev.try_frames # <<>>)
  => /\ try_frames = Front(prev.try_frames)
     /\ Len(stack) = PrevTry.stack_size + 1
     /\ Last(stack) = PrevTop
     /\ Last(frames).ip = PrevTry.ip

\* C5: a throw in a callee frame whose innermost TryFrame was established by a
\* caller frame destroys every call frame above the establishing frame and
\* resumes at the handler address in that frame.
C5_UnwindDropsCalleeFrames ==
  (/\ prev.op = "ThrowException"
   /\ prev.stack # <<>>
   /\ prev.try_frames # <<>>
   /\ PrevTry.owner # PrevFrame.fid
   /\ \E i \in 1..Len(prev.frames) : prev.frames[i].fid = PrevTry.owner)
  => /\ frames # <<>>
     /\ Last(frames).fid = PrevTry.owner
     /\ Last(frames).ip = PrevTry.ip

\* C6: ThrowException with no active TryFrame ends the run with
\* UnhandledException carrying exactly the thrown value.
C6_UnhandledCarriesValue ==
  (prev.op = "ThrowException" /\ prev.stack # <<>> /\ prev.try_frames = <<>>)
  => status = UnhandledException(PrevTop)

C6_Witness ==
  /\ prev.op = "ThrowException"
  /\ prev.try_frames = <<>>
  /\ prev.stack # <<>>
  /\ PrevTop = ObjectVal(1)
  /\ status.e = "UnhandledException"

\* Identities of the protected regions that are open (begun, neither closed
\* nor consumed) in a TryFrame stack.
OpenRegions(tf) == {tf[i].id : i \in 1..Len(tf)}

MostRecent(tf) == CHOOSE r \in OpenRegions(tf) : \A q \in OpenRegions(tf) : q <= r

\* A throw (ThrowException, or the re-throw of CatchException) transferred control.
ThrowTransferred ==
  /\ prev.op \in {"ThrowException", "CatchException"}
  /\ status = Running
  /\ Len(try_frames) < Len(prev.try_frames)

\* C7: protected regions are last-in-first-out: a throw transfers control to the
\* handler of the most recently begun region that is still open and consumes
\* it alone, and EndTryBlock closes the most recently begun open region, so an
\* outer region's handler is reached only after every region begun inside it
\* has been closed or consumed.
C7_RegionsAreLifo ==
  /\ ThrowTransferred =>
       \E k \in 1..Len(prev.try_frames) :
         /\ prev.try_frames[k].id = MostRecent(prev.try_frames)
         /\ Last(frames).ip = prev.try_frames[k].ip
         /\ OpenRegions(try_frames) = OpenRegions(prev.try_frames) \ {prev.try_frames[k].id}
  /\ (prev.op = "EndTryBlock" /\ prev.try_frames # <<>>) =>
       OpenRegions(try_frames) =
         OpenRegions(prev.try_frames) \ {MostRecent(prev.try_frames)}

C7_Witness ==
  /\ ThrowTransferred
  /\ Len(prev.try_frames) = 2
  /\ prev.try_frames[1].ip # prev.try_frames[2].ip
  /\ try_frames # <<>>

\* Class c is class t or has t among its ancestors (chains have at most 3 classes).
IsOrDescendsFrom(c, t) ==
  \/ c = t
  \/ superclass(c) = t
  \/ (superclass(c) \in ClassIds /\ superclass(superclass(c)) = t)

CatchIndex == prev.b1 * 256 + prev.b2
CatchConstant == constants(PrevFrame.function)[CatchIndex + 1]

\* CatchException was executed with its operand, an existing constant and a
\* value on the stack.
CatchExecuted ==
  /\ prev.op = "CatchException"
  /\ HasOperand2
  /\ CatchIndex < Len(constants(PrevFrame.function))
  /\ prev.stack # <<>>

CatchMatches ==
  /\ CatchConstant.t = "Class"
  /\ PrevTop.t = "Object"
  /\ IsOrDescendsFrom(instance_class(PrevTop.v), CatchConstant.v)

\* C8: CatchException leaves the operand stack and the control flow unchanged
\* exactly when the top value is an Object of the catch class or of a descendant;
\* otherwise it re-throws the same value: to the next enclosing TryFrame's
\* handler when there is one, else as UnhandledException.
C8_CatchMatchesOrRethrows ==
  CatchExecuted =>
    IF CatchMatches
      THEN /\ status = Running
           /\ stack = prev.stack
           /\ try_frames = prev.try_frames
           /\ frames = SetTopIp(prev.frames, PrevFrame.ip + 3)
      ELSE IF prev.try_frames # <<>>
        THEN /\ status = Running
             /\ try_frames = Front(prev.try_frames)
             /\ frames = SetTopIp(prev.frames, PrevTry.ip)
             /\ stack = Append(Truncate(Front(prev.stack), PrevTry.stack_size), PrevTop)
        ELSE status = UnhandledException(PrevTop)

C8_Witness ==
  /\ CatchExecuted
  /\ ~CatchMatches
  /\ CatchConstant.t = "Class"
  /\ PrevTop.t = "Object"
  /\ prev.try_frames # <<>>
  /\ status = Running

\* C9: EndTryBlock removes exactly the topmost TryFrame and changes nothing
\* else; with an empty TryFrame stack it ends the run with NoTryFrame.
C9_EndTryPopsOne ==
  prev.op = "EndTryBlock" =>
    /\ stack = prev.stack
    /\ frames = SetTopIp(prev.frames, PrevFrame.ip + 1)
    /\ IF prev.try_frames # <<>>
         THEN status = Running /\ try_frames = Front(prev.try_frames)
         ELSE status = Err("NoTryFrame") /\ try_frames = <<>>

C9_Witness ==
  /\ prev.op = "EndTryBlock"
  /\ Len(prev.try_frames) = 2
  /\ Len(try_frames) = 1

\* C10: TailCallFunction to a Function callee never changes the depth of the
\* frame stack.
C10_TailCallKeepsDepth ==
  (/\ prev.op = "TailCallFunction"
   /\ HasOperand1
   /\ Len(prev.stack) >= prev.b1 + 1
   /\ prev.stack[Len(prev.stack) - prev.b1].t = "Function")
  => Len(frames) = Len(prev.frames)

\* Two tail calls in a row: function 1, entered by a tail call from function 0,
\* has tail-called function 0.
C10_Witness ==
  /\ prev.op = "TailCallFunction"
  /\ status = Running
  /\ PrevFrame.function = 1
  /\ Len(prev.frames) = 1
  /\ Last(frames).function = 0
  /\ Last(frames).ip = 0

----------------------------------------------------------------------------
\* C11: after TailCallFunction(n) to a Bytecode callee the operand stack is the
\* entries below the current frame's stack_base followed by exactly the n
\* arguments in their original order (length = stack_base + n), and the
\* current frame executes the callee from IP 0.
C11_TailCallMovesArguments ==
  (prev.op = "TailCallFunction" /\ status = Running /\ HasOperand1) =>
    LET n == prev.b1
        base == PrevFrame.stack_base
        top == Len(prev.stack)
    IN /\ Len(stack) = base + n
       /\ SubSeq(stack, 1, base) = SubSeq(prev.stack, 1, base)
       /\ SubSeq(stack, base + 1, base + n) = SubSeq(prev.stack, top - n + 1, top)
       /\ Len(frames) = Len(prev.frames)
       /\ Last(frames).function = prev.stack[top - n].v
       /\ Last(frames).ip = 0

\* C12: ReturnFromFunction in the only remaining frame, with a value to
\* return, ends run at once with success: the frame stack is empty and the
\* returned value is on top of the operand stack.
C12_ReturnFromOnlyFrameEndsRun ==
  (prev.op = "ReturnFromFunction" /\ Len(prev.frames) = 1 /\ prev.stack # <<>>) =>
    /\ status = Ok
    /\ frames = <<>>
    /\ stack # <<>>
    /\ Last(stack) = PrevTop

\* A one-frame run returned the object it was started with.
C12_Witness ==
  /\ prev.op = "ReturnFromFunction"
  /\ Len(prev.frames) = 1
  /\ prev.stack # <<>>
  /\ PrevTop.t = "Object"
  /\ status = Ok
  /\ frames = <<>>
  /\ steps >= 2

\* The octet the instruction executed last was decoded from.
PrevOctet == bytecode[PrevFrame.function][PrevFrame.ip]

\* C16: fetching an octet that decodes to Unknown ends the run with
\* UnknownOpCode, with the operand stack, frames and protected regions as the
\* fetch found them; the run is over, so nothing executes past the octet.
C16_UnknownOctetIsFatal ==
  /\ (prev.op \notin {"none", "FrameEnd"} /\ Decode(PrevOctet) = "Unknown") =>
        /\ status = Err("UnknownOpCode")
        /\ stack = prev.stack
        /\ try_frames = prev.try_frames
        /\ Len(frames) = Len(prev.frames)
  /\ status = Err("UnknownOpCode") =>
        /\ prev.op = "Unknown"
        /\ from_u8(PrevOctet) = "Unknown"

\* An unassigned octet was fetched after two instructions had executed.
C16_Witness ==
  /\ prev.op = "Unknown"
  /\ from_u8(PrevOctet) = "Unknown"
  /\ status = Err("UnknownOpCode")
  /\ steps = 3

----------------------------------------------------------------------------
\* C13: for any bytecode and any starting operand stack, run ends only by
\* returning success or a categorized error: it never aborts.
C13_RunNeverAborts == status # Panic

\* C14: whatever jump offsets the run meets (unconditional, conditional,
\* short, loop, and the handler offset of BeginTryBlock), the IP of every
\* frame and the handler IP of every protected region of a live frame lie
\* within the code of the frame's function (at most at its end).
C14_JumpsStayInCode ==
  /\ \A i \in 1..Len(frames) : frames[i].ip <= code_end[frames[i].function]
  /\ \A t \in 1..Len(try_frames) : \A i \in 1..Len(frames) :
        frames[i].fid = try_frames[t].owner =>
          try_frames[t].ip <= code_end[frames[i].function]

\* C15: when an instruction fails with a fatal error (AddInt32 with a non-I32
\* operand, DivideInt32 with a zero divisor, ...), the operand stack has the
\* height it had before the instruction began.
C15_FailedInstructionKeepsHeight ==
  status.k = "error" => Len(stack) = Len(prev.stack)

\* C17: executing FinallyBlock or UnwindStack (and likewise a placeholder
\* atomic opcode) makes run return a fatal error to the embedder, with no
\* effect on the operand stack, the frames and the protected regions.
C17_UnimplementedOpcodeIsFatalError ==
  prev.op \in {"FinallyBlock", "UnwindStack", "AtomicAddInt32"} =>
    /\ status.k = "error"
    /\ stack = prev.stack
    /\ try_frames = prev.try_frames
    /\ Len(frames) = Len(prev.frames)

\* The slot operand of the variable instruction executed last.
PrevSlot == prev.b1

\* C18: a SetLocalVariable or SetGlobalVariable that succeeds stores a copy of
\* the top-of-stack value into the addressed slot, changes no other slot, and
\* leaves the operand stack with the same length and the same top value.
C18_SetStoresByPeek ==
  /\ (prev.op = "SetLocalVariable8" /\ status = Running) =>
        LET addressed == PrevFrame.stack_base + PrevSlot + 1 IN
        /\ Len(stack) = Len(prev.stack)
        /\ Last(stack) = PrevTop
        /\ stack[addressed] = PrevTop
        /\ \A i \in 1..Len(stack) : i # addressed => stack[i] = prev.stack[i]
        /\ globals = prev.globals
  /\ (prev.op = "SetGlobalVariable8" /\ status = Running) =>
        /\ stack = prev.stack
        /\ Len(globals) = Len(prev.globals)
        /\ globals[PrevSlot + 1] = PrevTop
        /\ \A i \in 1..Len(globals) : i # PrevSlot + 1 => globals[i] = prev.globals[i]

\* SetLocalVariable8 overwrote a slot below the top with a different value.
C18_Witness ==
  /\ prev.op = "SetLocalVariable8"
  /\ status = Running
  /\ PrevFrame.stack_base + PrevSlot + 1 < Len(prev.stack)
  /\ prev.stack[PrevFrame.stack_base + PrevSlot + 1] # PrevTop
  /\ stack[PrevFrame.stack_base + PrevSlot + 1] = PrevTop

\* SetGlobalVariable8 overwrote a defined global with a different value.
C18_WitnessGlobal ==
  /\ prev.op = "SetGlobalVariable8"
  /\ status = Running
  /\ prev.globals[PrevSlot + 1] # PrevTop
  /\ globals[PrevSlot + 1] = PrevTop

\* C19: GetGlobalVariable or SetGlobalVariable on a slot that DefineGlobal has
\* never targeted fails with UndefinedVariable and changes neither the
\* globals nor the operand stack, also when the slot lies below a defined one.
C19_UndefinedGlobalIsAnError ==
  (/\ prev.op \in {"GetGlobalVariable8", "SetGlobalVariable8"}
   /\ HasOperand1
   /\ PrevSlot \notin prev.defined
   /\ (prev.op = "SetGlobalVariable8" => prev.stack # <<>>)) =>
    /\ status = Err("UndefinedVariable")
    /\ globals = prev.globals
    /\ stack = prev.stack

\* The parent chain of a class, the class itself first.
RECURSIVE ParentChain(_)
ParentChain(c) ==
  IF superclass(c) = 0 - 1 THEN <<c>> ELSE <<c>> \o ParentChain(superclass(c))

HasSlot(c, s) == s < Len(methods(c))

\* The method at slot s of the nearest class of the chain that has the slot,
\* or -1 when no class of the chain has it.
NearestMethod(c, s) ==
  LET chain == ParentChain(c)
      having == {i \in 1..Len(chain) : HasSlot(chain[i], s)}
  IN IF having = {} THEN 0 - 1
     ELSE methods(chain[CHOOSE i \in having : \A j \in having : i <= j])[s + 1]

\* InvokeMethod8 executed last with an Object as receiver below its arguments.
InvokedOnObject ==
  /\ prev.op = "InvokeMethod8"
  /\ HasOperand2
  /\ Len(prev.stack) > prev.b2
  /\ prev.stack[Len(prev.stack) - prev.b2].t = "Object"

PrevReceiverClass == instance_class(prev.stack[Len(prev.stack) - prev.b2].v)

\* C20: resolving slot s on class C yields C's own method at s if C has one
\* and otherwise the method at s of the nearest ancestor that has one;
\* InvokeMethod fails with MethodNotFound exactly when no class of the
\* receiver's parent chain has the slot, and otherwise enters the resolved
\* method.
C20_MethodResolutionWalksChain ==
  /\ \A c \in ClassIds : \A s \in 0..2 : find_method(c, s) = NearestMethod(c, s)
  /\ InvokedOnObject =>
        /\ status = Err("MethodNotFound") <=> NearestMethod(PrevReceiverClass, prev.b1) = 0 - 1
        /\ status # Err("MethodNotFound") =>
              /\ status = Running
              /\ Len(frames) = Len(prev.frames) + 1
              /\ Last(frames).function = NearestMethod(PrevReceiverClass, prev.b1)
              /\ Last(frames).ip = 0
  /\ status = Err("MethodNotFound") => InvokedOnObject

\* A G instance was invoked on slot 0: neither G nor the root E but the
\* nearer ancestor D supplies the method.
C20_Witness ==
  /\ InvokedOnObject
  /\ PrevReceiverClass = 3
  /\ prev.b1 = 0
  /\ status = Running
  /\ Last(frames).function = 0
  /\ methods(0)[1] # 0

\* C25: an integer arithmetic instruction on I32 operands (Add, Sub, Negate,
\* Absolute, and Divide by a non-zero divisor) does not fail or abort: it
\* replaces its operands by the mathematical result reduced modulo 2^32.
ArithOps == {"AddInt32", "SubtractInt32", "DivideInt32", "NegateInt32", "AbsoluteInt32"}
ArithArity(op) == IF op \in {"NegateInt32", "AbsoluteInt32"} THEN 1 ELSE 2

\* The instruction executed last is an arithmetic one whose operands are I32.
ArithOnI32 ==
  /\ prev.op \in ArithOps
  /\ Len(prev.stack) >= ArithArity(prev.op)
  /\ \A k \in 0..(ArithArity(prev.op) - 1) : prev.stack[Len(prev.stack) - k].t = "I32"
  /\ prev.op = "DivideInt32" => PrevTop.v # 0

\* The mathematical result modulo 2^32, as an i32.
Reduced(op, a, b) ==
  CASE op = "AddInt32" ->
         (IF a > 0 /\ b > 0 /\ a > MaxI32 - b THEN (a + MinI32) + (b + MinI32)
          ELSE IF a < 0 /\ b < 0 /\ a < MinI32 - b THEN (a - MinI32) + (b - MinI32)
          ELSE a + b)
    [] op = "SubtractInt32" ->
         (IF b > 0 /\ a < MinI32 + b THEN (a - MinI32) - (b + MinI32)
          ELSE IF b < 0 /\ a > MaxI32 + b THEN (a + MinI32) - (b - MinI32)
          ELSE a - b)
    [] op = "DivideInt32" ->
         (IF a = MinI32 /\ b = 0 - 1 THEN MinI32 ELSE truncated_div(a, b))
    [] op = "NegateInt32" -> (IF b = MinI32 THEN MinI32 ELSE 0 - b)
    [] op = "AbsoluteInt32" -> (IF b = MinI32 THEN MinI32 ELSE IF b < 0 THEN 0 - b ELSE b)

C25_IntegerArithmeticWraps ==
  ArithOnI32 =>
    /\ status.k \in {"running", "ok"}
    /\ Len(stack) = Len(prev.stack) - ArithArity(prev.op) + 1
    /\ Last(stack) =
         I32(Reduced(prev.op,
                     (IF ArithArity(prev.op) = 2 THEN prev.stack[Len(prev.stack) - 1].v ELSE 0),
                     PrevTop.v))

\* The part of C25 that holds: Add and Sub wrap, and Negate and Absolute wrap
\* in a build without overflow checks.
C25_AddSubWrap ==
  (ArithOnI32 /\ prev.op \in {"AddInt32", "SubtractInt32"}) =>
    /\ status.k \in {"running", "ok"}
    /\ Last(stack) = I32(Reduced(prev.op, prev.stack[Len(prev.stack) - 1].v, PrevTop.v))
----------------------------------------------------------------------------
\* Instances and arrays.

\* The value `depth` places below the top of the stack the last instruction
\* started from.
PrevAt(depth) == prev.stack[Len(prev.stack) - depth]

\* The last instruction was a SetObjectProperty8 whose receiver is an instance
\* and whose slot is beyond the fields the instance has.
FieldWriteBeyondCount ==
  /\ prev.op = "SetObjectProperty8"
  /\ HasOperand1
  /\ Len(prev.stack) >= 2
  /\ PrevAt(1).t = "Object"
  /\ prev.b1 >= fields_len(PrevAt(1).v)

\* C22: writing an instance field at a slot beyond the instance's field count
\* is reported as a fatal error: the run neither goes on as if the write had
\* succeeded (growing the field vector) nor aborts.
C22_FieldWriteBeyondCountIsAnError ==
  FieldWriteBeyondCount => status.k = "error"

\* The last instruction was a GetArrayIndex on an array and an I64 index.
GetOnArray ==
  /\ prev.op = "GetArrayIndexInt32"
  /\ Len(prev.stack) >= 2
  /\ PrevAt(1).t = "Array"
  /\ PrevAt(0).t = "I64"

\* The last instruction was a SetArrayIndex on an array and an I64 index.
SetOnArray ==
  /\ prev.op = "SetArrayIndexInt32"
  /\ Len(prev.stack) >= 3
  /\ PrevAt(2).t = "Array"
  /\ PrevAt(1).t = "I64"

\* The array a Value::Array stood for when the last instruction began.
PrevArray(val) == prev.arrays[val.v + 1]

\* C23: GetArrayIndex with an index outside 0..length-1 (negative, equal to
\* the length, or larger) fails with IndexOutOfBounds; the array and the index
\* are gone from the stack and no value is pushed.
C23_GetOutOfRangeFails ==
  (GetOnArray /\ (PrevAt(0).v < 0 \/ PrevAt(0).v >= Len(PrevArray(PrevAt(1))))) =>
    /\ status = Err("IndexOutOfBounds")
    /\ stack = SubSeq(prev.stack, 1, Len(prev.stack) - 2)
    /\ arrays = prev.arrays

\* A GetArrayIndex at the index equal to the length has failed that way.
C23_Witness ==
  /\ GetOnArray
  /\ PrevAt(0).v = Len(PrevArray(PrevAt(1)))
  /\ status = Err("IndexOutOfBounds")

\* C24: SetArrayIndex at an index i >= length makes the array i+1 long, keeps
\* the cells it had, fills the new cells below i with Null and puts the value
\* at i; no other array changes; and a GetArrayIndex within the length pushes
\* the cell's value, so a following GetArrayIndex at i returns that value.
C24_SetBeyondLengthGrows ==
  /\ (SetOnArray /\ PrevAt(1).v >= Len(PrevArray(PrevAt(2)))) =>
       LET a == PrevAt(2).v + 1
           i == PrevAt(1).v
           old == PrevArray(PrevAt(2))
       IN /\ status.k \in {"running", "ok"}
          /\ stack = SubSeq(prev.stack, 1, Len(prev.stack) - 3)
          /\ Len(arrays[a]) = i + 1
          /\ \A k \in 1..Len(old) : arrays[a][k] = old[k]
          /\ \A k \in (Len(old) + 1)..i : arrays[a][k] = Null
          /\ arrays[a][i + 1] = PrevAt(0)
          /\ \A o \in DOMAIN arrays : o # a => arrays[o] = prev.arrays[o]
  /\ (GetOnArray /\ PrevAt(0).v >= 0 /\ PrevAt(0).v < Len(PrevArray(PrevAt(1)))) =>
       /\ status.k \in {"running", "ok"}
       /\ stack = Append(SubSeq(prev.stack, 1, Len(prev.stack) - 2),
                         PrevArray(PrevAt(1))[PrevAt(0).v + 1])

\* Array 0, two cells long at first, has been set at 5 and then read at 5:
\* it is six cells long, cells 2..4 are Null and the read gave I32(7).
C24_Witness ==
  /\ GetOnArray
  /\ PrevAt(1) = ArrayVal(0)
  /\ PrevAt(0) = I64(5)
  /\ arrays[1] = <<Null, Null, Null, Null, Null, I32(7)>>
  /\ stack # <<>>
  /\ Last(stack) = I32(7)
----------------------------------------------------------------------------
\* Whole programs.

\* The run is the one of the program `octets`, loaded as function f.
RunsProgram(f, octets) == code_end[f] = Len(octets) /\ bytecode[f] = Code(octets)

\* The run is the one of the class program whose global 0 holds a class that
\* resolves the invoked slot to function 1, a Bytecode method.
ClassProgram ==
  /\ \E m \in {0, 1} : RunsProgram(0, ClassCallMain(m))
  /\ globals # <<>>
  /\ globals[1].t = "Class"
  /\ NearestMethod(globals[1].v, bytecode[0][4]) = 1

\* The method has just returned to main: the last instruction was the
\* ReturnFromFunction of function 1, run as the second frame.
MethodReturned ==
  /\ ClassProgram
  /\ prev.op = "ReturnFromFunction"
  /\ Len(prev.frames) = 2
  /\ Last(prev.frames).function = 1
  /\ status = Running
  /\ Len(frames) = 1

\* C21: in a run of the class program (load the class from global 0, create
\* an instance, invoke a method without arguments on it, return) the three
\* instructions of main up to the invocation succeed and enter the method,
\* and when the method has returned, the next step ends the run successfully
\* with the value the method returned on top of the operand stack.
C21_MethodResultReachesHost ==
  /\ [](ClassProgram =>
          /\ (steps <= 3 => status = Running)
          /\ (steps = 2 => (stack # <<>> /\ Last(stack).t = "Object"
                             /\ instance_class(Last(stack).v) = globals[1].v))
          /\ (steps = 3 => (Len(frames) = 2 /\ Last(frames).function = 1)))
  /\ [][MethodReturned =>
          /\ status' = Ok
          /\ stack' # <<>>
          /\ Last(stack') = Last(prev.stack)]_vars

\* The class program with the method `PushConstant8 0; ReturnFromFunction` has
\* ended successfully with the method's constant 0 as the only value.
C21_Witness ==
  /\ ClassProgram
  /\ RunsProgram(1, <<1, 0, 44>>)
  /\ status = Ok
  /\ prev.op = "ReturnFromFunction"
  /\ Len(prev.frames) = 1
  /\ stack = <<constants(1)[1]>>

\* The limit the counting loop compares its counter with.
CountLimit == constants(2)[3].v

\* C29: the run of the counting loop (forward JumpIfFalse exit, backward
\* UnconditionalJump 0xFFEE) ends successfully with I32(limit) on top of the
\* operand stack.
C29_CountLoopReachesLimit ==
  (RunsProgram(2, CountLoop) /\ status # Running) =>
    /\ status = Ok
    /\ stack # <<>>
    /\ Last(stack) = I32(CountLimit)

\* C30: the run of PushConstant8 0; PrintTopOfStack; ReturnFromFunction from
\* an empty operand stack ends successfully with the operand stack empty.
C30_HelloWorldCompletes ==
  (RunsProgram(3, HelloWorld) /\ status # Running) =>
    /\ status = Ok
    /\ stack = <<>>
----------------------------------------------------------------------------
\* The JIT.

\* The top of an operand stack, or "empty".
TopOf(s) == IF s = <<>> THEN [t |-> "empty", v |-> 0] ELSE Last(s)

\* The interpreted run and the run of the native code have both ended normally.
BothEnded == status = Ok /\ native_vm.status = "returned"

\* C26: for a function the JIT has compiled, the run of its native code from
\* an operand stack and globals ends with the same top-of-stack value and the
\* same globals as the interpreted run of its bytecode from that state.
C26_NativeMatchesInterpreter ==
  BothEnded =>
    /\ TopOf(native_vm.stack) = TopOf(stack)
    /\ native_vm.globals = globals

\* The addresses at which the instructions of function f start.
RECURSIVE InstructionStarts(_, _)
InstructionStarts(f, ip) ==
  IF ip >= code_end[f] THEN {}
  ELSE {ip} \cup InstructionStarts(f, ip + 1 + OperandLen(Decode(bytecode[f][ip])))

\* Function f has an instruction outside the scope of the JIT: an exception
\* opcode or an atomic operation.
HasOpcodeOutsideScope(f) ==
  \E ip \in InstructionStarts(f, 0) :
     Decode(bytecode[f][ip]) \in {"ThrowException", "BeginTryBlock", "EndTryBlock",
                                  "CatchException", "AtomicAddInt32"}

\* C27: asked to compile a function that has an opcode outside its scope, the
\* compiler refuses without aborting: the process goes on and the function is
\* still of Bytecode kind without a native entry.
C27_CompilerRefusesWithoutAbort ==
  (prev.op = "CompileFunction" /\ HasOpcodeOutsideScope(native_vm.function)) =>
    /\ status.k # "panic"
    /\ functions[native_vm.function] = new_bytecode

\* C28: when compile_function has specialized a function, its kind is Native,
\* its native entry is set and its bytecode is still there; and no step takes
\* the kind of a function from Native back to Bytecode.
C28_NativeIsOneWay ==
  /\ []((prev.op = "CompileFunction" /\ status.k # "panic") =>
          functions[native_vm.function] =
            [kind |-> "Native", native |-> "Some", bytecode |-> "Some"])
  /\ [][\A f \in FuncIds :
          functions[f].kind = "Native" => functions'[f].kind = "Native"]_vars

\* A function has been specialized and its native code has run to its end.
C28_Witness ==
  /\ functions[2].kind = "Native"
  /\ native_vm.status = "returned"
----------------------------------------------------------------------------
\* Frames that end without ReturnFromFunction, and method calls.

\* C31: when the topmost frame ends because its IP reached the end of its
\* code, the operand stack is the one the function left: the frame is gone
\* and no value is added, removed or moved; the run of two PushConstant8 ends
\* with both constants in order, and the run of two push/print pairs ends
\* with the operand stack empty.
C31_FrameEndKeepsStack ==
  /\ (prev.op = "FrameEnd" =>
        /\ stack = prev.stack
        /\ frames = Front(prev.frames)
        /\ status \in {Running, Ok})
  /\ ((RunsProgram(2, PushConstants) /\ status # Running) =>
        /\ status = Ok
        /\ stack = <<constants(2)[1], constants(2)[2]>>)
  /\ ((RunsProgram(3, PushPrintPairs) /\ status # Running) =>
        /\ status = Ok
        /\ stack = <<>>)

\* The run of two PushConstant8 has ended at the end of the code.
C31_Witness ==
  /\ RunsProgram(2, PushConstants)
  /\ prev.op = "FrameEnd"
  /\ status = Ok
  /\ Len(stack) = Len(PushConstants) \div 2

\* C34: InvokeMethod8 slot 0 on a Bytecode method dispatches like
\* CallFunction 0: when the method has returned, the operand stack of the
\* caller holds the result in place of the receiver, that is, it is as long
\* as it was before the receiver was pushed, plus one.
C34_InvokeReplacesReceiver ==
  MethodReturned =>
    /\ stack = <<Last(prev.stack)>>
----------------------------------------------------------------------------
\* Protected regions and the frames that began them.

\* C32: while a run has frames left, every TryFrame on the protected-region
\* stack was begun by a call frame that is still on the frame stack: when a
\* frame is removed by ReturnFromFunction or at the end of its code, the
\* TryFrames it began go with it.
C32_TryFramesBelongToLiveFrames ==
  frames # <<>> =>
  \A i \in 1..Len(try_frames) :
     \E j \in 1..Len(frames) : frames[j].fid = try_frames[i].owner

\* C33: when a throw has transferred control to a handler and the handler's
\* first instruction is EndTryBlock, that EndTryBlock succeeds and leaves the
\* protected-region stack as deep as the throw left it, which is the depth
\* just before the BeginTryBlock of the region the throw consumed.
C33_HandlerMayEndWithEndTry ==
  [][(ThrowTransferred /\ prev'.op = "EndTryBlock") =>
       /\ status' \in {Running, Ok}
       /\ Len(try_frames') = Len(try_frames)]_vars
----------------------------------------------------------------------------
\* Shared instances.

\* The last instruction was a SetObjectProperty8 on an instance that another
\* slot of the operand stack refers to as well, at a slot that a write
\* through a single reference accepts.
SharedFieldWrite ==
  /\ prev.op = "SetObjectProperty8"
  /\ HasOperand1
  /\ Len(prev.stack) >= 3
  /\ PrevAt(1).t = "Object"
  /\ prev.b1 <= fields_len(PrevAt(1).v)
  /\ \E k \in 1..(Len(prev.stack) - 2) : prev.stack[k] = PrevAt(1)

\* C35: SetObjectProperty8 on an instance that is referenced from another
\* stack slot as well succeeds: the run goes on, with the value and the
\* reference popped and the other reference still in its slot, through which
\* the stored value can be read.
C35_SharedInstanceIsWritable ==
  SharedFieldWrite =>
    /\ status = Running
    /\ stack = SubSeq(prev.stack, 1, Len(prev.stack) - 2)
----------------------------------------------------------------------------
\* Jump targets.

\* The octet b as i8.
AsI8(b) == IF b >= 128 THEN b - 256 ELSE b

\* C37: ShortJump sets the IP to the address of its opcode plus its offset
\* taken as a signed 8-bit number (wrapped to usize below zero).
C37_ShortJumpIsRelativeToOpcode ==
  (prev.op = "ShortJump" /\ HasOperand1) =>
    /\ status \in {Running, Ok}
    /\ Last(frames).ip = (PrevFrame.ip + AsI8(prev.b1) + UsizeModulus) % UsizeModulus

\* The interpreter has just run a jump of a function the JIT has compiled.
JumpOfCompiledFunction ==
  /\ prev.op \in {"UnconditionalJump", "ShortJump"}
  /\ status = Running
  /\ functions[PrevFrame.function].kind = "Native"

\* C38: for a jump of a function the JIT has accepted, the block the native
\* code branches to starts at the address the interpreter sets the IP to for
\* that jump, and that address is the first octet of an instruction.
C38_BlocksStartAtInterpreterTargets ==
  JumpOfCompiledFunction =>
    /\ target_ip(PrevFrame.function, PrevFrame.ip) = Last(frames).ip
    /\ target_ip(PrevFrame.function, PrevFrame.ip)
         \in InstructionStarts(PrevFrame.function, 0)
----------------------------------------------------------------------------
\* Calls of compiled functions.

\* The last instruction was a CallFunction n whose callee is a function the
\* JIT has compiled, with a body that returns a value.
NativeCalled ==
  /\ prev.op = "CallFunction"
  /\ HasOperand1
  /\ Len(prev.stack) > prev.b1
  /\ PrevAt(prev.b1).t = "Function"
  /\ functions[PrevAt(prev.b1).v].kind = "Native"
  /\ \/ RunsProgram(1, <<3, 44>>)
     \/ RunsProgram(1, <<15, 0, 44>>) /\ prev.b1 >= 1

\* C39: a CallFunction n of a compiled function leaves the caller as the call
\* of its bytecode form does once the callee has returned: the frame stack is
\* as deep as before, and the callee entry and the n arguments are replaced
\* by the result -- Null for the body PushNull; Return, and the callee's own
\* first argument for the body GetLocalVariable8 0; Return.
C39_NativeCallMatchesBytecodeCall ==
  NativeCalled =>
    /\ status = Running
    /\ Len(frames) = Len(prev.frames)
    /\ stack = SubSeq(prev.stack, 1, Len(prev.stack) - prev.b1 - 1)
                 \o <<IF RunsProgram(1, <<3, 44>>) THEN Null ELSE PrevAt(prev.b1 - 1)>>
----------------------------------------------------------------------------
\* Method slots.

\* C36: add_method leaves every slot assigned before it, other than the one
\* it assigns, resolving to the method it resolved to: the call succeeds for
\* whatever slot comes next, and no method moves to another slot.
C36_SlotsAreStable ==
  [][prev'.op = "add_method" =>
       /\ status' = Running
       /\ \A k \in 1..Len(class_methods) :
            k # prev'.b1 + 1 => (k <= Len(class_methods') /\ class_methods'[k] = class_methods[k])]_vars
----------------------------------------------------------------------------
\* Bitwise operations and shifts.

BitOps ==
  {"BitwiseAndInt32", "BitwiseOrInt32", "BitwiseXorInt32", "BitwiseNotInt32",
   "LeftShiftInt32", "RightShiftInt32"}

\* The last instruction was a bitwise operation or shift whose operands (one
\* for Not, two for the others, the count of a shift within 0..31) are I32.
BitOpOnI32 ==
  /\ prev.op \in BitOps
  /\ prev.stack # <<>>
  /\ PrevTop.t = "I32"
  /\ prev.op # "BitwiseNotInt32" =>
       (Len(prev.stack) >= 2 /\ PrevAt(1).t = "I32" /\ PrevTop.v \in 0..31)

\* C40: each Int32 bitwise operation or shift accepts I32 operands and
\* replaces them by an I32: a & b, a | b, a ^ b and !a for the bitwise
\* operations.
C40_BitwiseInt32TakesI32 ==
  BitOpOnI32 =>
    /\ status \in {Running, Ok}
    /\ stack # <<>>
    /\ Last(stack).t = "I32"
    /\ prev.op = "BitwiseAndInt32" => Last(stack).v = Bitwise("and", PrevAt(1).v, PrevTop.v)
    /\ prev.op = "BitwiseOrInt32" => Last(stack).v = Bitwise("or", PrevAt(1).v, PrevTop.v)
    /\ prev.op = "BitwiseXorInt32" => Last(stack).v = Bitwise("xor", PrevAt(1).v, PrevTop.v)
    /\ prev.op = "BitwiseNotInt32" => Last(stack).v = 0 - PrevTop.v - 1
====
